---- MODULE Spec2Model ----
(***************************************************************************)
(* Data-access layer of the DC dashboard backend: the per-request Oracle   *)
(* connection context manager (app/services/database.py), the dynamic SQL  *)
(* and bind-parameter construction of the open-order-lines and             *)
(* hold-history services, and the /dbhealth route.                         *)
(*                                                                         *)
(* Encoding.  Optional[T] is a sequence of length <= 1 (None == <<>>,      *)
(* Some(v) == <<v>>).  A Python str is a sequence of one-character         *)
(* strings, so that upper() and '%' + s + '%' are computed.  SQL text is a *)
(* sequence of fragments in the order the code concatenates them; each     *)
(* fragment carries its text, the named placeholders occurring in it and   *)
(* its syntactic role.                                                     *)
(***************************************************************************)
EXTENDS Integers, Sequences, FiniteSets, TLC

VARIABLES
    pc,           \* position of the unit of work
    op,           \* operation invoked: "none" before the call
    args,         \* the arguments of the call
    sql,          \* SQL text of the statement built / being executed
    params,       \* bind-parameter dict passed with it
    conn,         \* local variable conn of get_oracle_connection
    connOpen,     \* the physical connection is open
    connectCount, \* calls of oracledb.connect that returned a connection
    setupCount,   \* successful executions of SESSION_SETUP_SQL
    closeCount,   \* calls of conn.close()
    bodyEntered,  \* the with-body received the connection (yield reached)
    executed,     \* log of cursor.execute calls on the connection
    exc,          \* exception in flight ("none" when there is none)
    excSite,      \* statement that raised it
    db,           \* contents of the tables at the time the query runs
    rows,         \* rows delivered by the engine, not yet mapped
    records,      \* records mapped so far
    envelope,     \* response envelope (None until it is created)
    cancelled,    \* the caller's request was cancelled while in flight
    via,          \* "route": called by its route; "service": called directly
    status,       \* HTTP status of the response (0: none sent)
    handler,      \* exception handler that produced the response
    delivered,    \* number of rows the engine delivered to this call
    first,        \* envelope and connection of the first of two equal calls
    connSerial,   \* connections oracledb.connect has made so far
    connId,       \* serial of the connection in conn (0: none)
    rKind,        \* concurrent view: kind of each request ("query", "health")
    rWorker,      \* worker process that accepted the request (0: none yet)
    rPc,          \* position of the request
    rConn,        \* index in conns of the connection it opened (0: none)
    loop,         \* request whose coroutine runs on the worker's event loop (0: idle)
    conns,        \* connections made: owner, open, requests that executed on it
    excValue,     \* handler view: the exception instance (its text, its status_code)
    requestId,    \* request.state.request_id ("unknown" when the middleware set none)
    body,         \* content of the JSONResponse (None until a handler answers)
    logged,       \* messages written to the log
    db_pool,      \* Talk-to-Data backend: the global db_pool (0: None)
    pools,        \* pools asyncpg.create_pool has returned: closed, created by
    createCalls,  \* calls of asyncpg.create_pool
    gPc,          \* position of each coroutine that calls get_db_pool
    gPool,        \* pool get_db_pool returned to it (0: none)
    lifePc,       \* lifespan: "running" until shutdown, then "stopped"
    databaseUrl   \* DATABASE_URL is set

vars == <<pc, op, args, sql, params, conn, connOpen, connectCount, setupCount,
          closeCount, bodyEntered, executed, exc, excSite, db, rows, records,
          envelope, cancelled, via, status, handler, delivered, first,
          connSerial, connId, rKind, rWorker, rPc, rConn, loop, conns,
          excValue, requestId, body, logged,
          db_pool, pools, createCalls, gPc, gPool, lifePc, databaseUrl>>

----------------------------------------------------------------------------
(* Bounds *)

MaxItemLen == 1     \* longest ordered_item filter value
MaxLines   == 2     \* most rows in the order-line tables
MaxHolds   == 2     \* most rows in oe_holds_history_v
MaxRows    == 2     \* most rows a fixed-template statement selects
MaxRequests == 2    \* concurrent requests
MaxWorkers == 2     \* gunicorn worker processes
MaxCallers == 3     \* concurrent coroutines that call get_db_pool

----------------------------------------------------------------------------
(* Optional values, Python truthiness, strings *)

None == <<>>
Some(v) == <<v>>

\* `if x:` on an Optional[int]: None and 0 are falsy
TruthyInt(o) == o # None /\ o[1] # 0

\* `if s:` on an Optional[str]: None and "" are falsy
TruthyStr(o) == o # None /\ o[1] # <<>>

Alphabet == {"a", "A", "b"}

UpperChar(c) ==
    CASE c = "a" -> "A"
      [] c = "b" -> "B"
      [] OTHER   -> c

\* str.upper()
Upper(s) == [i \in 1..Len(s) |-> UpperChar(s[i])]

\* t occurs in s as a contiguous substring
Contains(s, t) ==
    \E k \in 0..(Len(s) - Len(t)) :
        \A i \in 1..Len(t) : s[k + i] = t[i]

\* s LIKE pat, for a pattern of the form '%' || t || '%'
Like(s, pat) ==
    /\ Len(pat) >= 2
    /\ pat[1] = "%"
    /\ pat[Len(pat)] = "%"
    /\ Contains(s, SubSeq(pat, 2, Len(pat) - 1))

Strings(n) == UNION {[1..k -> Alphabet] : k \in 0..n}

----------------------------------------------------------------------------
(* SQL text as a sequence of fragments *)

Frag(text, binds, kind) == [text |-> text, binds |-> binds, kind |-> kind]

\* named placeholders occurring in a SQL text
Placeholders(q) == UNION {q[i].binds : i \in 1..Len(q)}

\* keys of a bind dict
BindKeys(p) == DOMAIN p

EmptyParams == <<>>

\* Mandatory session setup SQL for Oracle EBS
SESSION_SETUP_SQL ==
    << Frag("begin execute immediate 'ALTER SESSION SET CURRENT_SCHEMA = APPS'; apps.XXATD_ORG_ACCESS_UTILS_PKG.SET_multi_ORG_CONTEXT; end;",
            {}, "plsql") >>

VERSION_SQL ==
    << Frag("SELECT banner FROM v$version WHERE ROWNUM = 1", {}, "select") >>

SCHEMA_SQL ==
    << Frag("SELECT SYS_CONTEXT('USERENV', 'CURRENT_SCHEMA') FROM DUAL", {}, "select") >>

----------------------------------------------------------------------------
(* DCOrderLineService: SQL text and bind parameters *)

Pred(text, binds) == Frag(text, binds, "pred")

\* sql = """ WITH iteminfo ..., opendcopenlines AS ( SELECT ... WHERE ...
\*       AND a.ordered_date > SYSDATE - :days_back """
OpenLinesBase ==
    << Frag("WITH iteminfo As (Select flex_value_set_name, flex_value, ffvt.description From apps.fnd_flex_values_vl ffvt, apps.fnd_flex_value_sets ffvs ...)", {}, "cte"),
       Frag("opendcopenlines AS (", {}, "open"),
       Frag("SELECT ORDERED_DATE, LINE_CATEGORY_CODE, ORDERED_ITEM, ..., null trip_id", {}, "select"),
       Frag("FROM oe_order_lines_v a, mtl_reservations mr, apps.wsh_Delivery_Details_oe_V wdd, apps.wsh_Delivery_Details wdd1, OE_SETS, wsh_Carriers_v wcv", {}, "from"),
       Pred("a.ship_from_org_id = :dc", {"dc"}),
       Pred("a.open_flag = 'Y'", {}),
       Pred("wdd.source_line_id(+) = a.line_id", {}),
       Pred("wdd1.source_line_id = a.line_id", {}),
       Pred("wdd1.delivery_Detail_id = wdd.delivery_Detail_id(+)", {}),
       Pred("wdd1.source_code = 'OE'", {}),
       Pred("A.SHIP_sET_ID = SET_ID(+)", {}),
       Pred("wcv.freight_code = a.freight_carrier_code", {}),
       Pred("a.line_id = mr.demand_source_line_id(+)", {}),
       Pred("a.line_type NOT IN ('ATD Bill Only Line', 'ATD Vendor Direct Ship Line', 'ATD STHVendor Direct Ship Line')", {}),
       Pred("a.ordered_date > SYSDATE - :days_back", {"days_back"}) >>

\* sql += "      AND order_number = :order_number\n"
OrderNumberFragment == Pred("order_number = :order_number", {"order_number"})

\* sql += "      AND UPPER(ORDERED_ITEM) LIKE :ordered_item\n"
OrderedItemFragment == Pred("UPPER(ORDERED_ITEM) LIKE :ordered_item", {"ordered_item"})

\* sql += """ GROUP BY ... union all Select ... Where ... Group By ... )
\*          SELECT c.*, ... FROM opendcopenlines c, xxatdmrp_item_elements_v xie ... """
OpenLinesRest ==
    << Frag("GROUP BY ORDERED_DATE, LINE_CATEGORY_CODE, ORDERED_ITEM, ..., wdd1.released_Status", {}, "group"),
       Frag("union all", {}, "setop"),
       Frag("Select ORDERED_DATE, LINE_CATEGORY_CODE, ORDERED_ITEM, ..., trip_id", {}, "select"),
       Frag("From oe_order_lines_v a, apps.wsh_Delivery_Details_oe_V wdd, apps.wsh_Delivery_Details wdd1, OE_SETS, wsh_Carriers_v wcv, wsh_new_deliveries wnd, wsh_trip_deliveries_v wtd", {}, "from"),
       Pred("a.ship_from_org_id = :dc", {"dc"}),
       Pred("wdd.source_line_id = a.line_id", {}),
       Pred("wdd1.source_line_id = a.line_id", {}),
       Pred("wdd1.delivery_Detail_id = wdd.delivery_Detail_id", {}),
       Pred("wdd1.source_code = 'OE'", {}),
       Pred("A.SHIP_sET_ID = SET_ID(+)", {}),
       Pred("wnd.delivery_id = wdd.delivery_id", {}),
       Pred("wcv.freight_code = a.freight_carrier_code", {}),
       Pred("wnd.confirm_Date Between TRUNC(SYSDATE) And TRUNC(SYSDATE+1)", {}),
       Pred("wnd.organization_id = :dc", {"dc"}),
       Pred("wnd.delivery_id = wtd.delivery_id", {}),
       Pred("a.line_type NOT IN ('ATD Bill Only Line', 'ATD Vendor Direct Ship Line', 'ATD STHVendor Direct Ship Line')", {}),
       Pred("a.ordered_date > SYSDATE - :days_back", {"days_back"}),
       Frag("Group By ORDERED_DATE, LINE_CATEGORY_CODE, ORDERED_ITEM, ..., wdd1.released_Status, trip_id", {}, "group"),
       Frag(")", {}, "close"),
       Frag("SELECT c.*, holdapplied, holdreleased, routed, productgrp, vendor, style, item_description, localplusqtyexists (organization_id = :dc), localplusqty (organization_id = :dc) FROM opendcopenlines c, xxatdmrp_item_elements_v xie Where c.inventory_item_id = xie.inventory_item_id",
            {"dc"}, "outer") >>

\* DCOrderLineService._build_open_order_lines_query
_build_open_order_lines_query(order_number, ordered_item, dc) ==
    LET s0 == OpenLinesBase
        s1 == IF TruthyInt(order_number) THEN Append(s0, OrderNumberFragment) ELSE s0
        s2 == IF TruthyStr(ordered_item) THEN Append(s1, OrderedItemFragment) ELSE s1
    IN  s2 \o OpenLinesRest

\* OpenLinesParams as it would be if the filter value were wrapped as typed
OpenLinesParams_NoUpper(order_number, ordered_item, dc, days_back) ==
    LET p0 == "days_back" :> days_back
        p1 == IF TruthyInt(order_number)
              THEN ("order_number" :> order_number[1]) @@ p0 ELSE p0
        p2 == IF TruthyStr(ordered_item)
              THEN ("ordered_item" :> (<<"%">> \o ordered_item[1] \o <<"%">>)) @@ p1 ELSE p1
        p3 == IF TruthyInt(dc) THEN ("dc" :> dc[1]) @@ p2 ELSE p2
    IN  p3

\* params = {"days_back": days_back}; if order_number: ...; if ordered_item: ...; if dc: ...
OpenLinesParams(order_number, ordered_item, dc, days_back) ==
    LET p0 == "days_back" :> days_back
        p1 == IF TruthyInt(order_number)
              THEN ("order_number" :> order_number[1]) @@ p0 ELSE p0
        p2 == IF TruthyStr(ordered_item)
              THEN ("ordered_item" :> (<<"%">> \o Upper(ordered_item[1]) \o <<"%">>)) @@ p1 ELSE p1
        p3 == IF TruthyInt(dc) THEN ("dc" :> dc[1]) @@ p2 ELSE p2
    IN  p3

----------------------------------------------------------------------------
(* OrderHoldHistoryService: SQL text and bind parameters *)

HoldSelect ==
    Frag("SELECT held_by, hold_name, HOLD_ENTITY_CODE_VALUE AS holdlevel, APPLIED_DATE, APPLIED_BY, RELEASED_FLAG, RELEASED_DATE, RELEASED_BY, RELEASE_REASON_CODE, RELEASE_COMMENT",
         {}, "select")

HoldFrom == Frag("FROM oe_holds_history_v", {}, "from")

HeaderLevelBranch ==
    << HoldSelect, HoldFrom,
       Pred("header_id = :header_id", {"header_id"}),
       Pred("line_id IS NULL", {}) >>

LineLevelBranch ==
    << HoldSelect, HoldFrom,
       Pred("header_id = :header_id", {"header_id"}),
       Pred("line_id = :line_id", {"line_id"}) >>

OrderByAppliedDate == Frag("ORDER BY APPLIED_DATE", {}, "order")

\* LineIdSupplied as it would be with `if line_id:`
LineIdSupplied_Truthy(line_id) == TruthyInt(line_id)

\* `if line_id is not None:`
LineIdSupplied(line_id) == line_id # None

\* the sql of get_hold_history
HoldHistorySql(header_id, line_id) ==
    IF LineIdSupplied(line_id)
    THEN HeaderLevelBranch \o << Frag("UNION", {}, "setop") >> \o LineLevelBranch
             \o << OrderByAppliedDate >>
    ELSE HeaderLevelBranch \o << OrderByAppliedDate >>

\* the params of get_hold_history
HoldHistoryParams(header_id, line_id) ==
    IF LineIdSupplied(line_id)
    THEN ("header_id" :> header_id) @@ ("line_id" :> line_id[1])
    ELSE ("header_id" :> header_id)

----------------------------------------------------------------------------
(* The engine: the tables the two templates read and how a statement is   *)
(* evaluated over them.  Only the columns the predicates and the filters   *)
(* refer to are kept.                                                      *)

\* oe_order_lines_v joined with its delivery: trip_id is Some(t) when the
\* line has a delivery on a trip that was ship-confirmed today, else None
LineRows ==
    { [line_id |-> 1, order_number |-> 100001, ordered_item |-> <<"a", "b">>,
       ship_from_org_id |-> 84, open_flag |-> "Y", age_days |-> 10, trip_id |-> None],
      [line_id |-> 2, order_number |-> 100002, ordered_item |-> <<"B">>,
       ship_from_org_id |-> 84, open_flag |-> "Y", age_days |-> 10, trip_id |-> None],
      [line_id |-> 3, order_number |-> 100001, ordered_item |-> <<"a", "b">>,
       ship_from_org_id |-> 84, open_flag |-> "N", age_days |-> 10, trip_id |-> Some(900)],
      [line_id |-> 4, order_number |-> 100002, ordered_item |-> <<"B">>,
       ship_from_org_id |-> 84, open_flag |-> "N", age_days |-> 10, trip_id |-> Some(900)],
      [line_id |-> 5, order_number |-> 100002, ordered_item |-> <<"A">>,
       ship_from_org_id |-> 85, open_flag |-> "Y", age_days |-> 90, trip_id |-> Some(901)] }

\* oe_holds_history_v: holds 1, 2 and 4 agree on every selected column
HoldRows ==
    { [hold_id |-> 1, header_id |-> 10, line_id |-> None,    hold_name |-> "CREDIT", applied_date |-> 2],
      [hold_id |-> 2, header_id |-> 10, line_id |-> None,    hold_name |-> "CREDIT", applied_date |-> 2],
      [hold_id |-> 3, header_id |-> 10, line_id |-> Some(0), hold_name |-> "PRICE",  applied_date |-> 1],
      [hold_id |-> 4, header_id |-> 10, line_id |-> Some(5), hold_name |-> "CREDIT", applied_date |-> 2],
      [hold_id |-> 5, header_id |-> 11, line_id |-> None,    hold_name |-> "PRICE",  applied_date |-> 3],
      [hold_id |-> 6, header_id |-> 10, line_id |-> Some(5), hold_name |-> "PRICE",  applied_date |-> 3] }

\* sequences of at most n distinct elements of S (a table in storage order)
Tables(S, n) ==
    UNION { { t \in [1..k -> S] : \A i, j \in 1..k : i # j => t[i] # t[j] } : k \in 0..n }

EmptyDb == [lines |-> <<>>, holds |-> <<>>, result |-> <<>>]

\* truth of one WHERE predicate on one row under the bind values p; join
\* conditions against tables that are not modelled hold for every row
Sat(text, r, p) ==
    CASE text = "a.ship_from_org_id = :dc"  -> r.ship_from_org_id = p["dc"]
      [] text = "wnd.organization_id = :dc" -> r.ship_from_org_id = p["dc"]
      [] text = "a.open_flag = 'Y'"         -> r.open_flag = "Y"
      [] text = "a.ordered_date > SYSDATE - :days_back" -> r.age_days < p["days_back"]
      [] text = "wnd.confirm_Date Between TRUNC(SYSDATE) And TRUNC(SYSDATE+1)" -> r.trip_id # None
      [] text = "wnd.delivery_id = wtd.delivery_id" -> r.trip_id # None
      [] text = "order_number = :order_number" -> r.order_number = p["order_number"]
      [] text = "UPPER(ORDERED_ITEM) LIKE :ordered_item" -> Like(Upper(r.ordered_item), p["ordered_item"])
      [] text = "header_id = :header_id"    -> r.header_id = p["header_id"]
      [] text = "line_id IS NULL"           -> r.line_id = None
      [] text = "line_id = :line_id"        -> r.line_id = Some(p["line_id"])
      [] OTHER -> TRUE

\* the select list of a branch applied to one row
Project(selectText, r) ==
    CASE selectText = HoldSelect.text ->
             [hold_name |-> r.hold_name, applied_date |-> r.applied_date]
      [] selectText = "SELECT ORDERED_DATE, LINE_CATEGORY_CODE, ORDERED_ITEM, ..., null trip_id" ->
             [order_number |-> r.order_number, ordered_item |-> r.ordered_item,
              line_id |-> r.line_id, dc |-> r.ship_from_org_id, trip_id |-> None]
      [] OTHER ->
             [order_number |-> r.order_number, ordered_item |-> r.ordered_item,
              line_id |-> r.line_id, dc |-> r.ship_from_org_id, trip_id |-> r.trip_id]

MapSeq(s, F(_)) == [i \in 1..Len(s) |-> F(s[i])]

\* positions of the set operators (UNION, UNION ALL) of a statement
SetOps(q) == {i \in 1..Len(q) : q[i].kind = "setop"}

\* positions of the fragments of branch b (1 or 2) of a statement
BranchIdx(q, b) ==
    IF SetOps(q) = {}
    THEN IF b = 1 THEN 1..Len(q) ELSE {}
    ELSE LET c == CHOOSE i \in SetOps(q) : TRUE
         IN  IF b = 1 THEN 1..(c - 1) ELSE (c + 1)..Len(q)

\* texts of the WHERE predicates of branch b
BranchPreds(q, b) == {q[i].text : i \in {j \in BranchIdx(q, b) : q[j].kind = "pred"}}

\* rows of branch b of q over a table
BranchRows(q, b, table, p) ==
    LET idx  == BranchIdx(q, b)
        keep(r) == \A t \in BranchPreds(q, b) : Sat(t, r, p)
        sel  == q[CHOOSE i \in idx : q[i].kind = "select"].text
        proj(r) == Project(sel, r)
    IN  MapSeq(SelectSeq(table, keep), proj)

RECURSIVE Dedup(_)
\* UNION: duplicate rows are removed
Dedup(s) ==
    IF s = <<>> THEN <<>>
    ELSE LET front == Dedup(SubSeq(s, 1, Len(s) - 1))
             last  == s[Len(s)]
         IN  IF \E i \in 1..Len(front) : front[i] = last
             THEN front ELSE Append(front, last)

RECURSIVE SortByAppliedDate(_)
\* ORDER BY APPLIED_DATE (ties keep their order)
SortByAppliedDate(s) ==
    IF s = <<>> THEN <<>>
    ELSE LET front == SortByAppliedDate(SubSeq(s, 1, Len(s) - 1))
             last  == s[Len(s)]
             k     == Cardinality({i \in 1..Len(front) : front[i].applied_date <= last.applied_date})
         IN  SubSeq(front, 1, k) \o <<last>> \o SubSeq(front, k + 1, Len(front))

\* the table a statement reads
TableOf(q, d) ==
    IF \E i \in 1..Len(q) : q[i] = HoldFrom THEN d.holds ELSE d.lines

\* rows the engine delivers for statement q with bind values p over d
Evaluate(q, p, d) ==
    LET t   == TableOf(q, d)
        b1  == BranchRows(q, 1, t, p)
        raw == IF SetOps(q) = {} THEN b1
               ELSE LET c  == CHOOSE i \in SetOps(q) : TRUE
                        b2 == BranchRows(q, 2, t, p)
                    IN  IF q[c].text = "union all" THEN b1 \o b2 ELSE Dedup(b1 \o b2)
    IN  IF \E i \in 1..Len(q) : q[i].kind = "order"
        THEN SortByAppliedDate(raw) ELSE raw

\* cursor.execute(sql, params) is rejected unless every placeholder is bound
\* and every bind key names a placeholder
BindsAccepted(q, p) == Placeholders(q) = BindKeys(p)


----------------------------------------------------------------------------
(* Record shapes (app/models) and the mapping of a row to a record *)

\* one declared field of a pydantic model: its name, the key it is populated
\* by (its alias when it has one) and whether it is declared with Field(...)
Fld(name, alias, required) == [name |-> name, alias |-> alias, required |-> required]

\* the models, with the fields the modelled select lists feed
DCOpenOrderLine ==
    [fields |-> {Fld("order_number", "order_number", FALSE),
                 Fld("ordered_item", "ordered_item", FALSE),
                 Fld("line_id", "line_id", FALSE),
                 Fld("dc", "dc", FALSE),
                 Fld("trip_id", "trip_id", FALSE)},
     populate_by_name |-> FALSE]

OrderHoldHistory ==
    [fields |-> {Fld("hold_name", "hold_name", FALSE),
                 Fld("applied_date", "applied_date", FALSE)},
     populate_by_name |-> TRUE]

DCOnhandItem ==
    [fields |-> {Fld("inventory_item_id", "inventory_item_id", FALSE),
                 Fld("quantity", "quantity", FALSE),
                 Fld("customsubinventory", "customsubinventory", FALSE)},
     populate_by_name |-> FALSE]

InvoiceLine ==
    [fields |-> {Fld("trx_number", "trx_number", FALSE),
                 Fld("customer_trx_line_id", "customer_trx_line_id", FALSE),
                 Fld("line_type", "line_type", FALSE)},
     populate_by_name |-> FALSE]

NetworkInventoryItem ==
    [fields |-> {Fld("dc", "dc", TRUE),
                 Fld("organization_code", "organization_code", FALSE),
                 Fld("local_qty", "local_qty", FALSE)},
     populate_by_name |-> FALSE]

OpenTripException ==
    [fields |-> {Fld("noofopenlines", "noofopenlines", TRUE),
                 Fld("route_id", "route_id", FALSE),
                 Fld("trip_id", "trip_id", TRUE)},
     populate_by_name |-> TRUE]

DescartesInfo ==
    [fields |-> {Fld("payload_id", "payload_id", FALSE),
                 Fld("earliest_date", "earliestdate", FALSE)},
     populate_by_name |-> FALSE]

RoutePlan ==
    [fields |-> {Fld("route_id", "route_id", TRUE),
                 Fld("route_start_date", "route_start_date", FALSE),
                 Fld("stop_number", "stop_number", FALSE)},
     populate_by_name |-> FALSE]

DCLocation ==
    [fields |-> {Fld("organization_code", "organization_code", TRUE),
                 Fld("location_code", "location_code", TRUE),
                 Fld("organization_id", "organization_id", TRUE)},
     populate_by_name |-> FALSE]

\* the model each service maps its rows to
ShapeOf(o) ==
    CASE o = "get_open_order_lines"     -> DCOpenOrderLine
      [] o = "get_hold_history"         -> OrderHoldHistory
      [] o = "get_dc_onhand"            -> DCOnhandItem
      [] o = "get_invoice_lines"        -> InvoiceLine
      [] o = "get_network_inventory"    -> NetworkInventoryItem
      [] o = "get_open_trip_exceptions" -> OpenTripException
      [] o = "get_descartes_info"       -> DescartesInfo
      [] o = "get_route_plans"          -> RoutePlan
      [] o = "get_dc_locations"         -> DCLocation

\* col[0].lower() on the column labels of cursor.description
LowerName(c) ==
    CASE c = "NOOFOPENLINES"        -> "noofopenlines"
      [] c = "ROUTE_ID"             -> "route_id"
      [] c = "TRIP_ID"              -> "trip_id"
      [] c = "ROUTE_START_DATE"     -> "route_start_date"
      [] c = "STOP_NUMBER"          -> "stop_number"
      [] c = "DC"                   -> "dc"
      [] c = "ORGANIZATION_CODE"    -> "organization_code"
      [] c = "LOCAL_QTY"            -> "local_qty"
      [] c = "LOCATION_CODE"        -> "location_code"
      [] c = "ORGANIZATION_ID"      -> "organization_id"
      [] c = "INVENTORY_ITEM_ID"    -> "inventory_item_id"
      [] c = "QUANTITY"             -> "quantity"
      [] c = "ATTRIBUTE7"           -> "attribute7"
      [] c = "TRX_NUMBER"           -> "trx_number"
      [] c = "CUSTOMER_TRX_LINE_ID" -> "customer_trx_line_id"
      [] c = "LINE_TYPE"            -> "line_type"
      [] c = "PAYLOAD_ID"           -> "payload_id"
      [] c = "EARLIESTDATE"         -> "earliestdate"
      [] c = "ORDER_NUMBER"         -> "order_number"
      [] OTHER                      -> c

\* row_dict = dict(zip(columns, row)): a delivered row is a function from
\* the column labels to the column values (NULL is None)
RowDict(row) ==
    [c \in {LowerName(k) : k \in DOMAIN row} |->
        row[CHOOSE k \in DOMAIN row : LowerName(k) = c]]

\* row_dict.get(k)
Get(d, k) == IF k \in DOMAIN d THEN d[k] ELSE None

\* keyword arguments of the services that name each field:
\* field = row_dict.get("column")
GetKeys(o) ==
    CASE o = "get_open_order_lines"  -> {"order_number", "ordered_item", "line_id", "dc", "trip_id"}
      [] o = "get_hold_history"      -> {"hold_name", "applied_date"}
      [] o = "get_dc_onhand"         -> {"inventory_item_id", "quantity", "attribute7"}
      [] o = "get_invoice_lines"     -> {"trx_number", "customer_trx_line_id", "line_type"}
      [] o = "get_network_inventory" -> {"dc", "organization_code", "local_qty"}
      [] OTHER                       -> {}

\* the services that build the record as Model(**row_dict)
SplatServices ==
    {"get_open_trip_exceptions", "get_descartes_info", "get_route_plans", "get_dc_locations"}

\* the keyword arguments the service passes to the model
Kwargs(o, d) ==
    IF o \in SplatServices THEN d ELSE [k \in GetKeys(o) |-> Get(d, k)]

\* the input pydantic takes for field f: by alias, else by name when the
\* model has populate_by_name, else the default None
FieldInput(shape, f, kw) ==
    IF f.alias \in DOMAIN kw THEN kw[f.alias]
    ELSE IF shape.populate_by_name /\ f.name \in DOMAIN kw THEN kw[f.name]
    ELSE None

\* ModelValidate as it would be if no field were required
ModelValidate_NothingRequired(shape, kw) ==
    [ok  |-> TRUE,
     rec |-> [n \in {f.name : f \in shape.fields} |->
                 FieldInput(shape, CHOOSE f \in shape.fields : f.name = n, kw)]]

\* Model(**kw): a required field without a non-null input is a
\* ValidationError; keys that name no field are ignored
ModelValidate(shape, kw) ==
    [ok  |-> \A f \in shape.fields : f.required => FieldInput(shape, f, kw) # None,
     rec |-> [n \in {f.name : f \in shape.fields} |->
                 FieldInput(shape, CHOOSE f \in shape.fields : f.name = n, kw)]]

----------------------------------------------------------------------------
(* The services whose SQL is one fixed template *)

DcOnhandSql ==
    << Frag("WITH iteminfo AS (...), onhand AS (...) SELECT onhand.inventory_item_id, ... FROM onhand", {}, "select"),
       Pred("msi.organization_id = :dcid", {"dcid"}) >>

InvoiceLinesSql ==
    << Frag("SELECT * FROM (... UNION ...)", {}, "select"),
       Pred("b.WAREHOUSE_ID = :dcid", {"dcid"}),
       Frag("ORDER BY trx_number, customer_trx_line_id, line_type", {}, "order") >>

NetworkInventorySql ==
    << Frag("SELECT 'Local' AS dc, location_code organization_code, local_qty", {}, "select"),
       Pred("a.organization_id = :dcid", {"dcid"}),
       Pred("inventory_item_id = :itemid", {"itemid"}),
       Frag("UNION", {}, "setop"),
       Frag("SELECT 'Local+' AS dc, location_code AS organization_code, local_qty", {}, "select"),
       Pred("LOCAL_DC_ID = :dcid", {"dcid"}),
       Pred("inventory_item_id = :itemid", {"itemid"}) >>

TripExceptionsSql ==
    << Frag("WITH opentrips AS (...), openlinetrips AS (...) SELECT NVL(openlines, 0) AS noofopenlines, b.route_id, b.trip_id, ...", {}, "select"),
       Pred("organization_id = :org_id", {"org_id"}) >>

DescartesInfoSql ==
    << Frag("With descartdata As (...), exceptions As (...) Select * From (... Union All ...)", {}, "select"),
       Pred("order_number = :order_number", {"order_number"}),
       Pred("REGEXP_SUBSTR(line_id1, '^[^-]+') = TO_CHAR(:line_id)", {"line_id"}),
       Frag("Order By 1", {}, "order") >>

RoutePlansSql ==
    << Frag("SELECT hdr.route_id, route_name, ..., route_start_date, ..., stop_number, ...", {}, "select"),
       Pred("hdr.SHIP_FROM_ORG_ID = :dcid", {"dcid"}),
       Frag("ORDER BY route_start_date, stop_number", {}, "order") >>

DcLocationsSql ==
    << Frag("SELECT mp.organization_code, hl.location_code, mp.organization_id", {}, "select"),
       Frag("ORDER BY mp.organization_code", {}, "order") >>

\* rows the templates can select (a column that the statement or the schema
\* keeps from being NULL has no None)
OnhandRows ==
    {[INVENTORY_ITEM_ID |-> Some(1), QUANTITY |-> b, ATTRIBUTE7 |-> c] :
        b \in {None, Some(3)}, c \in {None, Some("BULK")}}

InvoiceRows ==
    {[TRX_NUMBER |-> Some(1), CUSTOMER_TRX_LINE_ID |-> Some(b), LINE_TYPE |-> Some(c)] :
        b \in {1, 2}, c \in {"LINE", "TAX"}}

NetworkRows ==
    {[DC |-> Some(a), ORGANIZATION_CODE |-> b, LOCAL_QTY |-> Some(3)] :
        a \in {"Local", "Local+"}, b \in {None, Some("084")}}

TripRows ==
    {[NOOFOPENLINES |-> Some(0), ROUTE_ID |-> b, TRIP_ID |-> c] :
        b \in {None, Some(7)}, c \in {None, Some(900)}}

DescartesRows ==
    {[PAYLOAD_ID |-> Some(a), EARLIESTDATE |-> b, ORDER_NUMBER |-> Some(100001)] :
        a \in {1, 2}, b \in {None, Some(5)}}

RoutePlanRows ==
    {[ROUTE_ID |-> a, ROUTE_START_DATE |-> Some(1), STOP_NUMBER |-> Some(c)] :
        a \in {None, Some(7)}, c \in {1, 2}}

\* organization codes are written as numbers
LocationRows ==
    {[ORGANIZATION_CODE |-> Some(a), LOCATION_CODE |-> Some(b), ORGANIZATION_ID |-> Some(a)] :
        a \in {84, 85}, b \in {"L1", "L2"}}

\* sequences of at most n elements of S
Seqs(S, n) == UNION {[1..k -> S] : k \in 0..n}

\* what a template selects from the data at hand, in the order the engine
\* finds it; the branches of a UNION leave no duplicates
TemplateResults(o) ==
    CASE o = "get_dc_onhand"            -> Seqs(OnhandRows, MaxRows)
      [] o = "get_invoice_lines"        -> Tables(InvoiceRows, MaxRows)
      [] o = "get_network_inventory"    -> Tables(NetworkRows, MaxRows)
      [] o = "get_open_trip_exceptions" -> Seqs(TripRows, MaxRows)
      [] o = "get_descartes_info"       -> Seqs(DescartesRows, MaxRows)
      [] o = "get_route_plans"          -> Seqs(RoutePlanRows, MaxRows)
      [] o = "get_dc_locations"         -> Seqs(LocationRows, MaxRows)

TemplateServices ==
    {"get_dc_onhand", "get_invoice_lines", "get_network_inventory",
     "get_open_trip_exceptions", "get_descartes_info", "get_route_plans",
     "get_dc_locations"}

----------------------------------------------------------------------------
(* Order of delivery *)

\* the permutations of a sequence
Perms(s) ==
    IF s = <<>> THEN {<<>>}
    ELSE {[i \in 1..Len(s) |-> s[p[i]]] : p \in Permutations(1..Len(s))}

\* the ORDER BY fragment of a statement ("" when it has none)
OrderText(q) ==
    IF \E i \in 1..Len(q) : q[i].kind = "order"
    THEN q[CHOOSE i \in 1..Len(q) : q[i].kind = "order"].text
    ELSE ""

\* the sort key of a row under an ORDER BY
OrderKey(text, r) ==
    CASE text = "ORDER BY APPLIED_DATE" -> <<r.applied_date>>
      [] text = "ORDER BY mp.organization_code" -> <<r.ORGANIZATION_CODE[1]>>
      [] text = "ORDER BY route_start_date, stop_number" ->
             <<r.ROUTE_START_DATE[1], r.STOP_NUMBER[1]>>
      [] text = "Order By 1" -> <<r.PAYLOAD_ID[1]>>
      [] text = "ORDER BY trx_number, customer_trx_line_id, line_type" ->
             <<r.TRX_NUMBER[1], r.CUSTOMER_TRX_LINE_ID[1],
               IF r.LINE_TYPE[1] = "LINE" THEN 1 ELSE 2>>

\* key a sorts strictly before key b
KeyLess(a, b) ==
    \E i \in 1..Len(a) : a[i] < b[i] /\ \A j \in 1..(i - 1) : a[j] = b[j]

\* Deliveries as it would be if the engine ignored the ORDER BY
Deliveries_IgnoresOrderBy(q, result) == Perms(result)

\* the orders in which the engine may deliver the rows of a result: with an
\* ORDER BY every order that is sorted by the key (rows with equal keys in
\* any order), without one every order
Deliveries(q, result) ==
    IF OrderText(q) = "" THEN Perms(result)
    ELSE {s \in Perms(result) :
            \A i, j \in 1..Len(s) :
                i < j => ~KeyLess(OrderKey(OrderText(q), s[j]), OrderKey(OrderText(q), s[i]))}

----------------------------------------------------------------------------
(* Inputs *)

OrderNumbers == {None, Some(0), Some(100001), Some(100002)}
OrderedItems == {None} \cup {Some(s) : s \in Strings(MaxItemLen)}
Dcs          == {None, Some(0), Some(84)}
DaysBacks    == {0, 60}
HeaderIds    == {10, 11}
LineIds      == {None, Some(0), Some(5)}
Dcids        == {0, 84}
Itemids      == {0, 7}
OrgIds       == {0, 121}

LineDbs == {[lines |-> t, holds |-> <<>>, result |-> <<>>] : t \in Tables(LineRows, MaxLines)}
HoldDbs == {[lines |-> <<>>, holds |-> t, result |-> <<>>] : t \in Tables(HoldRows, MaxHolds)}
TemplateDbs(o) == {[lines |-> <<>>, holds |-> <<>>, result |-> t] : t \in TemplateResults(o)}

\* the data a service's statement can meet
DbsOf(o) ==
    CASE o = "get_open_order_lines" -> LineDbs
      [] o = "get_hold_history"     -> HoldDbs
      [] OTHER                      -> TemplateDbs(o)

Services == {"get_open_order_lines", "get_hold_history"} \cup TemplateServices

\* a service is called by its route, behind FastAPI's validation of the
\* declared Query constraints, or directly
Vias == {"service", "route"}

\* the statement a service builds from its arguments
SqlOf(o, a) ==
    CASE o = "get_open_order_lines" ->
             _build_open_order_lines_query(a.order_number, a.ordered_item, a.dc)
      [] o = "get_hold_history"         -> HoldHistorySql(a.header_id, a.line_id)
      [] o = "get_dc_onhand"            -> DcOnhandSql
      [] o = "get_invoice_lines"        -> InvoiceLinesSql
      [] o = "get_network_inventory"    -> NetworkInventorySql
      [] o = "get_open_trip_exceptions" -> TripExceptionsSql
      [] o = "get_descartes_info"       -> DescartesInfoSql
      [] o = "get_route_plans"          -> RoutePlansSql
      [] o = "get_dc_locations"         -> DcLocationsSql

\* the bind dict it passes with the statement
ParamsOf(o, a) ==
    CASE o = "get_open_order_lines" ->
             OpenLinesParams(a.order_number, a.ordered_item, a.dc, a.days_back)
      [] o = "get_hold_history"         -> HoldHistoryParams(a.header_id, a.line_id)
      [] o = "get_network_inventory"    -> ("dcid" :> a.dcid) @@ ("itemid" :> a.itemid)
      [] o = "get_open_trip_exceptions" -> ("org_id" :> a.org_id)
      [] o = "get_descartes_info"       ->
             ("order_number" :> a.order_number) @@ ("line_id" :> a.line_id)
      [] o = "get_dc_locations"         -> EmptyParams
      [] OTHER                          -> ("dcid" :> a.dcid)

----------------------------------------------------------------------------
(* Concurrent requests: gunicorn worker processes, each running one uvicorn
   event loop; the routes are `async def` and call their service, which
   calls the blocking oracledb API, without an await in between *)

Requests == 1..MaxRequests
Workers == 1..MaxWorkers

\* the coroutines of the Talk-to-Data backend
Callers == 1..MaxCallers

\* the module is loaded: db_pool = None, no request yet
PoolInit ==
    /\ db_pool = 0
    /\ pools = <<>>
    /\ createCalls = 0
    /\ gPc = [r \in Callers |-> "idle"]
    /\ gPool = [r \in Callers |-> 0]
    /\ lifePc = "running"
    /\ databaseUrl = TRUE

\* no exception has reached a handler
RespInit ==
    /\ excValue = [text |-> "", status_code |-> 0]
    /\ requestId = "unknown"
    /\ body = None
    /\ logged = <<>>

\* no request has arrived
ConcInit ==
    /\ rKind = [r \in Requests |-> "none"]
    /\ rWorker = [r \in Requests |-> 0]
    /\ rPc = [r \in Requests |-> "new"]
    /\ rConn = [r \in Requests |-> 0]
    /\ loop = [w \in Workers |-> 0]
    /\ conns = <<>>

InitConc ==
    /\ ConcInit
    /\ RespInit
    /\ PoolInit
    /\ pc = "idle"
    /\ op = "none"
    /\ args = <<>>
    /\ sql = <<>>
    /\ params = EmptyParams
    /\ conn = "None"
    /\ connOpen = FALSE
    /\ connectCount = 0
    /\ setupCount = 0
    /\ closeCount = 0
    /\ bodyEntered = FALSE
    /\ executed = <<>>
    /\ exc = "none"
    /\ excSite = "none"
    /\ db = EmptyDb
    /\ rows = <<>>
    /\ records = <<>>
    /\ envelope = None
    /\ cancelled = FALSE
    /\ via = "none"
    /\ status = 0
    /\ handler = "none"
    /\ delivered = 0
    /\ first = None
    /\ connSerial = 0
    /\ connId = 0

\* the variables of the single unit of work, which the concurrent view
\* leaves alone
unitVars == <<pc, op, args, sql, params, conn, connOpen, connectCount, setupCount,
              closeCount, bodyEntered, executed, exc, excSite, db, rows, records,
              envelope, cancelled, via, status, handler, delivered, first,
              connSerial, connId,
              excValue, requestId, body, logged,
          db_pool, pools, createCalls, gPc, gPool, lifePc, databaseUrl>>

\* a request for a query route or for GET /health is accepted by a worker:
\* its coroutine is scheduled on that worker's event loop
Arrive ==
    \E r \in Requests, k \in {"query", "health"}, w \in Workers :
        /\ rPc[r] = "new"
        /\ rKind' = [rKind EXCEPT ![r] = k]
        /\ rWorker' = [rWorker EXCEPT ![r] = w]
        /\ rPc' = [rPc EXCEPT ![r] = "queued"]
        /\ UNCHANGED <<rConn, loop, conns, unitVars>>

\* the event loop of the worker, running no coroutine, starts the request's
\* route function
Start ==
    \E r \in Requests :
        /\ rPc[r] = "queued"
        /\ loop[rWorker[r]] = 0
        /\ loop' = [loop EXCEPT ![rWorker[r]] = r]
        /\ rPc' = [rPc EXCEPT ![r] = IF rKind[r] = "health" THEN "health" ELSE "connect"]
        /\ UNCHANGED <<rKind, rWorker, rConn, conns, unitVars>>

\* health_check returns its HealthResponse
HealthRespond ==
    \E r \in Requests :
        /\ rPc[r] = "health"
        /\ rPc' = [rPc EXCEPT ![r] = "done"]
        /\ loop' = [loop EXCEPT ![rWorker[r]] = 0]
        /\ UNCHANGED <<rKind, rWorker, rConn, conns, unitVars>>

\* ConcConnect as it would be if the process kept one connection and handed
\* it to every request
ConcConnect_SharedConnection ==
    \E r \in Requests :
        /\ rPc[r] = "connect"
        /\ IF conns = <<>>
           THEN /\ conns' = <<[owner |-> r, open |-> TRUE, users |-> {}]>>
                /\ rConn' = [rConn EXCEPT ![r] = 1]
           ELSE /\ conns' = [conns EXCEPT ![1].open = TRUE]
                /\ rConn' = [rConn EXCEPT ![r] = 1]
        /\ rPc' = [rPc EXCEPT ![r] = "setup"]
        /\ UNCHANGED <<rKind, rWorker, loop, unitVars>>

\* conn = oracledb.connect(...) in the request's own generator frame: a new
\* connection, or an oracledb.Error
ConcConnect ==
    \E r \in Requests :
        /\ rPc[r] = "connect"
        /\ \/ /\ conns' = Append(conns, [owner |-> r, open |-> TRUE, users |-> {}])
              /\ rConn' = [rConn EXCEPT ![r] = Len(conns) + 1]
              /\ rPc' = [rPc EXCEPT ![r] = "setup"]
           \/ /\ rPc' = [rPc EXCEPT ![r] = "respond"]
              /\ UNCHANGED <<rConn, conns>>
        /\ UNCHANGED <<rKind, rWorker, loop, unitVars>>

\* cursor.execute(SESSION_SETUP_SQL) on the local conn; an oracledb.Error
\* goes to the finally clause
ConcSetup ==
    \E r \in Requests :
        /\ rPc[r] = "setup"
        /\ \/ /\ conns' = [conns EXCEPT ![rConn[r]].users = @ \cup {r}]
              /\ rPc' = [rPc EXCEPT ![r] = "execute"]
           \/ /\ rPc' = [rPc EXCEPT ![r] = "close"]
              /\ UNCHANGED conns
        /\ UNCHANGED <<rKind, rWorker, rConn, loop, unitVars>>

\* cursor.execute(sql, params) and the fetch, on the connection the with
\* statement bound
ConcExecute ==
    \E r \in Requests :
        /\ rPc[r] = "execute"
        /\ conns' = [conns EXCEPT ![rConn[r]].users = @ \cup {r}]
        /\ rPc' = [rPc EXCEPT ![r] = "close"]
        /\ UNCHANGED <<rKind, rWorker, rConn, loop, unitVars>>

\* finally: conn.close() on the local conn
ConcClose ==
    \E r \in Requests :
        /\ rPc[r] = "close"
        /\ conns' = [conns EXCEPT ![rConn[r]].open = FALSE]
        /\ rPc' = [rPc EXCEPT ![r] = "respond"]
        /\ UNCHANGED <<rKind, rWorker, rConn, loop, unitVars>>

\* the route function returns (or raises): the coroutine ends and the event
\* loop is free again
ConcRespond ==
    \E r \in Requests :
        /\ rPc[r] = "respond"
        /\ rPc' = [rPc EXCEPT ![r] = "done"]
        /\ loop' = [loop EXCEPT ![rWorker[r]] = 0]
        /\ UNCHANGED <<rKind, rWorker, rConn, conns, unitVars>>

NextConc ==
    \/ Arrive
    \/ Start
    \/ HealthRespond
    \/ ConcConnect
    \/ ConcSetup
    \/ ConcExecute
    \/ ConcClose
    \/ ConcRespond

SpecConc == InitConc /\ [][NextConc]_vars

----------------------------------------------------------------------------
(* Talk-to-Data backend: the process-wide asyncpg pool of get_db_pool, with
   concurrent coroutines of one event loop; a coroutine runs without
   interruption from one await to the next *)

InitPool ==
    /\ db_pool = 0
    /\ pools = <<>>
    /\ createCalls = 0
    /\ gPc = [r \in Callers |-> "idle"]
    /\ gPool = [r \in Callers |-> 0]
    /\ lifePc = "running"
    /\ databaseUrl \in BOOLEAN
    /\ ConcInit
    /\ RespInit
    /\ pc = "idle"
    /\ op = "none"
    /\ args = <<>>
    /\ sql = <<>>
    /\ params = EmptyParams
    /\ conn = "None"
    /\ connOpen = FALSE
    /\ connectCount = 0
    /\ setupCount = 0
    /\ closeCount = 0
    /\ bodyEntered = FALSE
    /\ executed = <<>>
    /\ exc = "none"
    /\ excSite = "none"
    /\ db = EmptyDb
    /\ rows = <<>>
    /\ records = <<>>
    /\ envelope = None
    /\ cancelled = FALSE
    /\ via = "none"
    /\ status = 0
    /\ handler = "none"
    /\ delivered = 0
    /\ first = None
    /\ connSerial = 0
    /\ connId = 0

\* everything but the pool view
nonPoolVars == <<pc, op, args, sql, params, conn, connOpen, connectCount, setupCount,
                 closeCount, bodyEntered, executed, exc, excSite, db, rows, records,
                 envelope, cancelled, via, status, handler, delivered, first,
                 connSerial, connId, rKind, rWorker, rPc, rConn, loop, conns,
                 excValue, requestId, body, logged>>

\* submit_feedback calls get_db_pool, which runs to its first await: with a
\* pool in db_pool it returns it; with none it raises HTTPException when
\* DATABASE_URL is not set, and otherwise calls asyncpg.create_pool and
\* awaits it
GetDbPool ==
    \E r \in Callers :
        /\ lifePc = "running"
        /\ gPc[r] = "idle"
        /\ IF db_pool # 0
           THEN /\ gPool' = [gPool EXCEPT ![r] = db_pool]
                /\ gPc' = [gPc EXCEPT ![r] = "acquire"]
                /\ UNCHANGED createCalls
           ELSE IF ~databaseUrl
           THEN /\ gPc' = [gPc EXCEPT ![r] = "failed"]
                /\ UNCHANGED <<gPool, createCalls>>
           ELSE /\ createCalls' = createCalls + 1
                /\ gPc' = [gPc EXCEPT ![r] = "creating"]
                /\ UNCHANGED gPool
        /\ UNCHANGED <<db_pool, pools, lifePc, databaseUrl, nonPoolVars>>

\* the awaited create_pool returns a new pool: db_pool = <it>; return db_pool
CreatePoolReturns ==
    \E r \in Callers :
        /\ gPc[r] = "creating"
        /\ pools' = Append(pools, [closed |-> FALSE, by |-> r])
        /\ db_pool' = Len(pools) + 1
        /\ gPool' = [gPool EXCEPT ![r] = Len(pools) + 1]
        /\ gPc' = [gPc EXCEPT ![r] = "acquire"]
        /\ UNCHANGED <<createCalls, lifePc, databaseUrl, nonPoolVars>>

\* the awaited create_pool raises
CreatePoolFails ==
    \E r \in Callers :
        /\ gPc[r] = "creating"
        /\ gPc' = [gPc EXCEPT ![r] = "failed"]
        /\ UNCHANGED <<db_pool, pools, createCalls, gPool, lifePc, databaseUrl,
                       nonPoolVars>>

\* async with pool.acquire() as conn: ... return FeedbackResponse(...)
UsePool ==
    \E r \in Callers :
        /\ gPc[r] = "acquire"
        /\ gPc' = [gPc EXCEPT ![r] = "done"]
        /\ UNCHANGED <<db_pool, pools, createCalls, gPool, lifePc, databaseUrl,
                       nonPoolVars>>

\* lifespan after its yield, once the server has no request in flight:
\* if db_pool: await db_pool.close()
LifespanShutdown ==
    /\ lifePc = "running"
    /\ \A r \in Callers : gPc[r] \in {"idle", "done", "failed"}
    /\ lifePc' = "stopped"
    /\ pools' = IF db_pool # 0 THEN [pools EXCEPT ![db_pool].closed = TRUE] ELSE pools
    /\ UNCHANGED <<db_pool, createCalls, gPc, gPool, databaseUrl, nonPoolVars>>

NextPool ==
    \/ GetDbPool
    \/ CreatePoolReturns
    \/ CreatePoolFails
    \/ UsePool
    \/ LifespanShutdown

SpecPool == InitPool /\ [][NextPool]_vars

----------------------------------------------------------------------------
(* Initial state: no request in flight *)

Init ==
    /\ pc = "idle"
    /\ op = "none"
    /\ args = <<>>
    /\ sql = <<>>
    /\ params = EmptyParams
    /\ conn = "None"
    /\ connOpen = FALSE
    /\ connectCount = 0
    /\ setupCount = 0
    /\ closeCount = 0
    /\ bodyEntered = FALSE
    /\ executed = <<>>
    /\ exc = "none"
    /\ excSite = "none"
    /\ db = EmptyDb
    /\ rows = <<>>
    /\ records = <<>>
    /\ envelope = None
    /\ cancelled = FALSE
    /\ via = "none"
    /\ status = 0
    /\ handler = "none"
    /\ delivered = 0
    /\ first = None
    /\ connSerial = 0
    /\ connId = 0
    /\ ConcInit
    /\ RespInit
    /\ PoolInit

lifecycleVars == <<conn, connOpen, connectCount, setupCount, closeCount,
                   bodyEntered, executed>>
resultVars == <<db, rows, records, envelope>>
httpVars == <<via, status, handler>>
serialVars == <<first, connSerial, connId>>
concVars == <<rKind, rWorker, rPc, rConn, loop, conns>>
respVars == <<excValue, requestId, body, logged>>
poolVars == <<db_pool, pools, createCalls, gPc, gPool, lifePc, databaseUrl>>
viewVars == <<concVars, respVars, poolVars>>
outerVars == <<httpVars, delivered, serialVars, viewVars>>

----------------------------------------------------------------------------
(* Entry points *)

\* Enter as it would be if the routes declared no constraints
Enter_NoValidation(o, a, v, accepted) ==
    /\ pc = "idle"
    /\ op' = o
    /\ args' = a
    /\ via' = v
    /\ sql' = SqlOf(o, a)
    /\ params' = ParamsOf(o, a)
    /\ pc' = "cm_connect"
    /\ UNCHANGED <<status, handler>>
    /\ UNCHANGED <<lifecycleVars, resultVars, exc, excSite, cancelled,
                   delivered, serialVars, viewVars>>

\* a route function up to the with statement of its service: FastAPI answers
\* 422 without calling the route function when a declared constraint is
\* violated; the service itself checks nothing
Enter(o, a, v, accepted) ==
    /\ pc = "idle"
    /\ op' = o
    /\ args' = a
    /\ via' = v
    /\ IF v = "route" /\ ~accepted
       THEN /\ status' = 422
            /\ handler' = "RequestValidationError"
            /\ pc' = "responded"
            /\ UNCHANGED <<sql, params>>
       ELSE /\ sql' = SqlOf(o, a)
            /\ params' = ParamsOf(o, a)
            /\ pc' = "cm_connect"
            /\ UNCHANGED <<status, handler>>
    /\ UNCHANGED <<lifecycleVars, resultVars, exc, excSite, cancelled,
                   delivered, serialVars, viewVars>>

\* GET /dc-order-lines: dc: int = Query(..., ge=1), days_back ge=1 le=365;
\* DCOrderLineService.get_open_order_lines
Call_get_open_order_lines ==
    \E order_number \in OrderNumbers, ordered_item \in OrderedItems,
       dc \in Dcs, days_back \in DaysBacks, v \in Vias :
        Enter("get_open_order_lines",
              [order_number |-> order_number, ordered_item |-> ordered_item,
               dc |-> dc, days_back |-> days_back],
              v,
              dc # None /\ dc[1] >= 1 /\ days_back >= 1 /\ days_back <= 365)

\* GET /order-hold-history: no bounds declared;
\* OrderHoldHistoryService.get_hold_history
Call_get_hold_history ==
    \E header_id \in HeaderIds, line_id \in LineIds, v \in Vias :
        Enter("get_hold_history", [header_id |-> header_id, line_id |-> line_id],
              v, TRUE)

\* GET /dc-onhand: dcid ge=1; DCOnhandService.get_dc_onhand
Call_get_dc_onhand ==
    \E dcid \in Dcids, v \in Vias :
        Enter("get_dc_onhand", [dcid |-> dcid], v, dcid >= 1)

\* GET /invoice-lines: dcid ge=1; InvoiceLinesService.get_invoice_lines
Call_get_invoice_lines ==
    \E dcid \in Dcids, v \in Vias :
        Enter("get_invoice_lines", [dcid |-> dcid], v, dcid >= 1)

\* GET /network-inventory: dcid ge=1, itemid ge=1;
\* NetworkInventoryService.get_network_inventory
Call_get_network_inventory ==
    \E dcid \in Dcids, itemid \in Itemids, v \in Vias :
        Enter("get_network_inventory", [dcid |-> dcid, itemid |-> itemid],
              v, dcid >= 1 /\ itemid >= 1)

\* GET /open-trips: no bounds declared;
\* TripExceptionService.get_open_trip_exceptions
Call_get_open_trip_exceptions ==
    \E org_id \in OrgIds, v \in Vias :
        Enter("get_open_trip_exceptions", [org_id |-> org_id], v, TRUE)

\* GET /info: no bounds declared; DescartesInfoService.get_descartes_info
Call_get_descartes_info ==
    \E v \in Vias :
        Enter("get_descartes_info", [order_number |-> 100001, line_id |-> 5], v, TRUE)

\* GET /route-plans: no bounds declared; DescartesInfoService.get_route_plans
Call_get_route_plans ==
    \E v \in Vias :
        Enter("get_route_plans", [dcid |-> 84], v, TRUE)

\* GET /dc-locations: no parameters; DCLocationService.get_dc_locations
Call_get_dc_locations ==
    \E v \in Vias :
        Enter("get_dc_locations", <<>>, v, TRUE)

\* db_health_check up to the with statement
Call_db_health_check ==
    /\ pc = "idle"
    /\ op' = "db_health_check"
    /\ via' = "route"
    /\ pc' = "cm_connect"
    /\ UNCHANGED <<args, sql, params, lifecycleVars, resultVars, exc, excSite,
                   cancelled, status, handler, delivered, serialVars, viewVars>>

----------------------------------------------------------------------------
(* get_oracle_connection *)

\* an exception raised inside the generator's try block: an oracledb.Error
\* goes through the except clause, anything else straight to finally
RaiseTo(e) == IF e = "oracledb.Error" THEN "cm_except" ELSE "cm_finally"

\* Connect as it would be if the session setup were left out
Connect_SkipsSetup ==
    /\ pc = "cm_connect"
    /\ \/ /\ conn' = "Connection"
          /\ connOpen' = TRUE
          /\ connectCount' = connectCount + 1
          /\ connSerial' = connSerial + 1
          /\ connId' = connSerial + 1
          /\ pc' = "cm_yield"
          /\ UNCHANGED <<exc, excSite>>
       \/ /\ exc' = "oracledb.Error"
          /\ excSite' = "connect"
          /\ pc' = RaiseTo("oracledb.Error")
          /\ UNCHANGED <<conn, connOpen, connectCount, connSerial, connId>>
    /\ UNCHANGED <<op, args, sql, params, setupCount, closeCount, bodyEntered,
                   executed, resultVars, cancelled, httpVars, delivered, first,
                   viewVars>>

\* conn = oracledb.connect(...): every call makes a new connection
Connect ==
    /\ pc = "cm_connect"
    /\ \/ /\ conn' = "Connection"
          /\ connOpen' = TRUE
          /\ connectCount' = connectCount + 1
          /\ connSerial' = connSerial + 1
          /\ connId' = connSerial + 1
          /\ pc' = "cm_setup"
          /\ UNCHANGED <<exc, excSite>>
       \/ /\ exc' = "oracledb.Error"
          /\ excSite' = "connect"
          /\ pc' = RaiseTo("oracledb.Error")
          /\ UNCHANGED <<conn, connOpen, connectCount, connSerial, connId>>
    /\ UNCHANGED <<op, args, sql, params, setupCount, closeCount, bodyEntered,
                   executed, resultVars, cancelled, httpVars, delivered, first,
                   viewVars>>

\* entry of the execute log
Executed(stmt, q) ==
    [stmt |-> stmt, sql |-> q, setupDone |-> setupCount > 0, open |-> connOpen,
     conn |-> connId]

\* SessionSetup as it would be if a failed setup raised a kind of its own
SessionSetup_RaisesSetupError ==
    /\ pc = "cm_setup"
    /\ executed' = Append(executed, Executed("setup", SESSION_SETUP_SQL))
    /\ \/ /\ setupCount' = setupCount + 1
          /\ pc' = "cm_yield"
          /\ UNCHANGED <<exc, excSite>>
       \/ /\ exc' = "SessionSetupError"
          /\ excSite' = "setup"
          /\ pc' = RaiseTo("SessionSetupError")
          /\ UNCHANGED setupCount
    /\ UNCHANGED <<op, args, sql, params, conn, connOpen, connectCount, closeCount,
                   bodyEntered, resultVars, cancelled, outerVars>>

\* with conn.cursor() as cursor: cursor.execute(SESSION_SETUP_SQL)
SessionSetup ==
    /\ pc = "cm_setup"
    /\ executed' = Append(executed, Executed("setup", SESSION_SETUP_SQL))
    /\ \/ /\ setupCount' = setupCount + 1
          /\ pc' = "cm_yield"
          /\ UNCHANGED <<exc, excSite>>
       \/ /\ exc' = "oracledb.Error"
          /\ excSite' = "setup"
          /\ pc' = RaiseTo("oracledb.Error")
          /\ UNCHANGED setupCount
    /\ UNCHANGED <<op, args, sql, params, conn, connOpen, connectCount, closeCount,
                   bodyEntered, resultVars, cancelled, outerVars>>

\* yield conn: the with-body starts
Yield ==
    /\ pc = "cm_yield"
    /\ bodyEntered' = TRUE
    /\ pc' = "body_execute"
    /\ UNCHANGED <<op, args, sql, params, conn, connOpen, connectCount, setupCount,
                   closeCount, executed, exc, excSite, resultVars, cancelled,
                   outerVars>>

\* CmExcept as it would be if the close sat after the yield, not in a finally
CmExcept_SkipsFinally ==
    /\ pc = "cm_except"
    /\ pc' = "raised"
    /\ UNCHANGED <<op, args, sql, params, lifecycleVars, exc, excSite, resultVars,
                   cancelled, outerVars>>

\* except oracledb.Error as e: logger.exception(...); raise
CmExcept ==
    /\ pc = "cm_except"
    /\ pc' = "cm_finally"
    /\ UNCHANGED <<op, args, sql, params, lifecycleVars, exc, excSite, resultVars,
                   cancelled, outerVars>>

\* `if conn:` in the finally clause
ConnIsSet(c) == c # "None"

\* CmFinally as it would be if the connection were closed on success only
CmFinally_CloseOnSuccessOnly ==
    /\ pc = "cm_finally"
    /\ IF ConnIsSet(conn) /\ exc = "none"
       THEN /\ connOpen' = FALSE
            /\ closeCount' = closeCount + 1
       ELSE UNCHANGED <<connOpen, closeCount>>
    /\ pc' = IF exc = "none" THEN "after_with" ELSE "raised"
    /\ UNCHANGED <<op, args, sql, params, conn, connectCount, setupCount, bodyEntered,
                   executed, exc, excSite, resultVars, cancelled, outerVars>>

\* finally: if conn: conn.close()
CmFinally ==
    /\ pc = "cm_finally"
    /\ IF ConnIsSet(conn)
       THEN /\ connOpen' = FALSE
            /\ closeCount' = closeCount + 1
       ELSE UNCHANGED <<connOpen, closeCount>>
    /\ pc' = IF exc = "none" THEN "after_with" ELSE "raised"
    /\ UNCHANGED <<op, args, sql, params, conn, connectCount, setupCount, bodyEntered,
                   executed, exc, excSite, resultVars, cancelled, outerVars>>

----------------------------------------------------------------------------
(* The with-bodies *)

\* an exception leaves the with-body: the generator is resumed with it
BodyRaises(e, site) ==
    /\ exc' = e
    /\ excSite' = site
    /\ pc' = RaiseTo(e)

\* what the statement selects from the data d
ResultOf(o, q, p, d) ==
    IF o \in TemplateServices THEN d.result ELSE Evaluate(q, p, d)

\* the services that call cursor.fetchall() before they map
FetchAllServices ==
    {"get_open_order_lines", "get_dc_onhand", "get_invoice_lines", "get_network_inventory"}

\* cursor.execute(sql, params) of a query service; a repeated call meets the
\* data of the first
Execute ==
    /\ pc = "body_execute"
    /\ op \in Services
    /\ executed' = Append(executed, Executed("domain", sql))
    /\ \/ /\ BodyRaises("oracledb.Error", "execute")
          /\ UNCHANGED <<db, rows, delivered>>
       \/ /\ BindsAccepted(sql, params)
          /\ \E d \in (IF first = None THEN DbsOf(op) ELSE {db}) :
                /\ db' = d
                /\ \E s \in Deliveries(sql, ResultOf(op, sql, params, d)) :
                      /\ rows' = s
                      /\ delivered' = Len(s)
          /\ pc' = IF op \in FetchAllServices THEN "body_fetch" ELSE "body_map"
          /\ UNCHANGED <<exc, excSite>>
    /\ UNCHANGED <<op, args, sql, params, conn, connOpen, connectCount, setupCount,
                   closeCount, bodyEntered, records, envelope, cancelled,
                   httpVars, serialVars, viewVars>>

\* rows = cursor.fetchall()
FetchAll ==
    /\ pc = "body_fetch"
    /\ \/ /\ pc' = "body_map"
          /\ UNCHANGED <<exc, excSite>>
       \/ BodyRaises("oracledb.Error", "fetch")
    /\ UNCHANGED <<op, args, sql, params, lifecycleVars, resultVars, cancelled,
                   outerVars>>

\* the record built from one delivered row
MapRowToModel(o, row) == ModelValidate(ShapeOf(o), Kwargs(o, RowDict(row))).rec

\* MapRowOk as it would be if the models forbade keys that name no field
MapRowOk_ForbidExtra(o, row) ==
    /\ ModelValidate(ShapeOf(o), Kwargs(o, RowDict(row))).ok
    /\ \A k \in DOMAIN Kwargs(o, RowDict(row)) :
           \E f \in ShapeOf(o).fields :
               k = f.alias \/ (ShapeOf(o).populate_by_name /\ k = f.name)

\* the model accepts the row
MapRowOk(o, row) == ModelValidate(ShapeOf(o), Kwargs(o, RowDict(row))).ok

\* MapRow as it would be if a row the model refuses were skipped
MapRow_SkipsBadRow ==
    /\ pc = "body_map"
    /\ rows # <<>>
    /\ \/ /\ MapRowOk(op, Head(rows))
          /\ records' = Append(records, MapRowToModel(op, Head(rows)))
          /\ rows' = Tail(rows)
          /\ UNCHANGED <<pc, exc, excSite>>
       \/ /\ ~MapRowOk(op, Head(rows))
          /\ rows' = Tail(rows)
          /\ UNCHANGED <<pc, exc, excSite, records>>
       \/ /\ op \notin FetchAllServices
          /\ BodyRaises("oracledb.Error", "fetch")
          /\ UNCHANGED <<rows, records>>
    /\ UNCHANGED <<op, args, sql, params, lifecycleVars, db, envelope, cancelled,
                   outerVars>>

\* one iteration of the mapping loop
MapRow ==
    /\ pc = "body_map"
    /\ rows # <<>>
    /\ \/ /\ MapRowOk(op, Head(rows))
          /\ records' = Append(records, MapRowToModel(op, Head(rows)))
          /\ rows' = Tail(rows)
          /\ UNCHANGED <<pc, exc, excSite>>
       \/ /\ ~MapRowOk(op, Head(rows))
          /\ BodyRaises("ValidationError", "map")
          /\ UNCHANGED <<rows, records>>
       \/ /\ op \notin FetchAllServices   \* `for row in cursor` fetches as it goes
          /\ BodyRaises("oracledb.Error", "fetch")
          /\ UNCHANGED <<rows, records>>
    /\ UNCHANGED <<op, args, sql, params, lifecycleVars, db, envelope, cancelled,
                   outerVars>>

\* ExitWith as it would be if the loop could end with rows left unmapped
ExitWith_LeavesRows ==
    /\ pc = "body_map"
    /\ pc' = "cm_finally"
    /\ UNCHANGED <<op, args, sql, params, lifecycleVars, exc, excSite, resultVars,
                   cancelled, outerVars>>

\* the loop is over: the with-body ends normally
ExitWith ==
    /\ pc = "body_map"
    /\ rows = <<>>
    /\ pc' = "cm_finally"
    /\ UNCHANGED <<op, args, sql, params, lifecycleVars, exc, excSite, resultVars,
                   cancelled, outerVars>>

\* /dbhealth: cursor.execute("SELECT banner ..."); row = cursor.fetchone()
HealthVersion ==
    /\ pc = "body_execute"
    /\ op = "db_health_check"
    /\ sql' = VERSION_SQL
    /\ executed' = Append(executed, Executed("domain", VERSION_SQL))
    /\ \/ /\ pc' = "health_schema"
          /\ UNCHANGED <<exc, excSite>>
       \/ BodyRaises("oracledb.Error", "execute")
    /\ UNCHANGED <<op, args, params, conn, connOpen, connectCount, setupCount,
                   closeCount, bodyEntered, resultVars, cancelled, outerVars>>

\* /dbhealth: cursor.execute("SELECT SYS_CONTEXT ..."); row = cursor.fetchone()
HealthSchema ==
    /\ pc = "health_schema"
    /\ sql' = SCHEMA_SQL
    /\ executed' = Append(executed, Executed("domain", SCHEMA_SQL))
    /\ \/ /\ pc' = "cm_finally"
          /\ UNCHANGED <<exc, excSite>>
       \/ BodyRaises("oracledb.Error", "execute")
    /\ UNCHANGED <<op, args, params, conn, connOpen, connectCount, setupCount,
                   closeCount, bodyEntered, resultVars, cancelled, outerVars>>

BodyPcs == {"body_execute", "body_fetch", "body_map", "health_schema"}

\* an exception that is not an Exception subclass (KeyboardInterrupt,
\* SystemExit of an aborted worker) is raised while the body runs
Interrupt ==
    /\ pc \in BodyPcs
    /\ BodyRaises("BaseException", "interrupt")
    /\ UNCHANGED <<op, args, sql, params, lifecycleVars, resultVars, cancelled,
                   outerVars>>

\* the caller goes away while the request is in flight; the synchronous
\* body has no await and runs on
Cancel ==
    /\ pc \notin {"idle", "returned", "raised", "responded"}
    /\ ~cancelled
    /\ cancelled' = TRUE
    /\ UNCHANGED <<pc, op, args, sql, params, lifecycleVars, exc, excSite, resultVars,
                   outerVars>>

----------------------------------------------------------------------------
(* The response *)

\* Envelope as it would be if days_back were echoed as its default
Envelope_EchoesDefault(o, a, recs) ==
    LET base == [data |-> recs, total |-> Len(recs)] IN
    CASE o = "get_open_order_lines" -> base @@ [days_back |-> 60]
      [] o = "get_hold_history" -> base @@ [header_id |-> a.header_id, line_id |-> a.line_id]
      [] o = "get_network_inventory" -> base @@ [dcid |-> a.dcid, itemid |-> a.itemid]
      [] o = "get_open_trip_exceptions" -> base @@ [org_id |-> a.org_id]
      [] o = "get_descartes_info" -> base @@ [order_number |-> a.order_number, line_id |-> a.line_id]
      [] o = "get_dc_locations" -> base
      [] o = "db_health_check" -> [status |-> "healthy"]
      [] OTHER -> base @@ [dcid |-> a.dcid]

\* the ...ListResponse a service returns: data, total = len(data) and the
\* arguments it echoes
Envelope(o, a, recs) ==
    LET base == [data |-> recs, total |-> Len(recs)] IN
    CASE o = "get_open_order_lines" -> base @@ [days_back |-> a.days_back]
      [] o = "get_hold_history" -> base @@ [header_id |-> a.header_id, line_id |-> a.line_id]
      [] o = "get_network_inventory" -> base @@ [dcid |-> a.dcid, itemid |-> a.itemid]
      [] o = "get_open_trip_exceptions" -> base @@ [org_id |-> a.org_id]
      [] o = "get_descartes_info" -> base @@ [order_number |-> a.order_number, line_id |-> a.line_id]
      [] o = "get_dc_locations" -> base
      [] o = "db_health_check" -> [status |-> "healthy"]
      [] OTHER -> base @@ [dcid |-> a.dcid]

\* the statements after the with block: the response is built and returned;
\* a route answers 200 with it
\* Return as it would be if the response were built inside the with-body
Return_InsideWith ==
    /\ pc = "body_map"
    /\ rows = <<>>
    /\ envelope' = Some(Envelope(op, args, records))
    /\ status' = IF via = "route" THEN 200 ELSE status
    /\ pc' = "returned"
    /\ UNCHANGED <<op, args, sql, params, lifecycleVars, exc, excSite, db, rows,
                   records, cancelled, via, handler, delivered, serialVars,
                   viewVars>>

Return ==
    /\ pc = "after_with"
    /\ envelope' = Some(Envelope(op, args, records))
    /\ status' = IF via = "route" THEN 200 ELSE status
    /\ pc' = "returned"
    /\ UNCHANGED <<op, args, sql, params, lifecycleVars, exc, excSite, db, rows,
                   records, cancelled, via, handler, delivered, serialVars,
                   viewVars>>

\* the classes of an exception, most specific first (pydantic's
\* ValidationError is a ValueError)
Mro(e) ==
    CASE e = "oracledb.Error"  -> <<"oracledb.Error", "Exception", "BaseException">>
      [] e = "ValidationError" -> <<"ValidationError", "ValueError", "Exception", "BaseException">>
      [] e = "HTTPException"   -> <<"HTTPException", "Exception", "BaseException">>
      [] OTHER                 -> <<e>>

\* the classes register_exception_handlers registers a handler for
RegisteredHandlers == {"oracledb.Error", "HTTPException", "ValueError", "Exception"}

\* the handler that answers an exception: the first class of its MRO that
\* has one ("none": no handler, the exception leaves the application)
HandlerFor(e) ==
    IF \E i \in 1..Len(Mro(e)) : Mro(e)[i] \in RegisteredHandlers
    THEN Mro(e)[CHOOSE i \in 1..Len(Mro(e)) :
                    /\ Mro(e)[i] \in RegisteredHandlers
                    /\ \A j \in 1..(i - 1) : Mro(e)[j] \notin RegisteredHandlers]
    ELSE "none"

\* the status code a handler answers with
HandlerStatus(h) ==
    CASE h = "oracledb.Error" -> 500
      [] h = "ValueError"     -> 400
      [] h = "Exception"      -> 500

\* engine and validation messages
ErrorTexts ==
    {"ORA-00942: table or view does not exist",
     "ORA-01017: invalid username/password; logon denied",
     "ORA-12541: TNS:no listener",
     "ORA-03113: end-of-file on communication channel",
     "1 validation error for OpenTripException"}

\* str(uuid.uuid4())[:8] set by add_request_id, or the getattr default
RequestIds == {"unknown", "1a2b3c4d", "9f8e7d6c"}

\* the exception instances a handler can receive
ExcValues(e) ==
    IF e = "HTTPException"
    THEN {[text |-> t, status_code |-> c] : t \in ErrorTexts, c \in {404, 503}}
    ELSE {[text |-> t, status_code |-> 0] : t \in ErrorTexts}

\* status_code of the JSONResponse
ResponseStatus(h, e) == IF h = "HTTPException" THEN e.status_code ELSE HandlerStatus(h)

\* HandlerContent as it would be if the Oracle handler echoed the exception
\* as value_error_handler does
HandlerContent_EchoesError(h, e, rid) ==
    CASE h = "oracledb.Error" ->
             [error |-> "Database operation failed", detail |-> e.text, request_id |-> rid]
      [] h = "HTTPException" -> [error |-> e.text, request_id |-> rid]
      [] h = "ValueError" ->
             [error |-> "Invalid input", detail |-> e.text, request_id |-> rid]
      [] h = "Exception" ->
             [error |-> "Internal server error",
              detail |-> "An unexpected error occurred", request_id |-> rid]

\* content of the JSONResponse of each handler
HandlerContent(h, e, rid) ==
    CASE h = "oracledb.Error" ->
             [error |-> "Database operation failed",
              detail |-> "An error occurred while accessing the database",
              request_id |-> rid]
      [] h = "HTTPException" -> [error |-> e.text, request_id |-> rid]
      [] h = "ValueError" ->
             [error |-> "Invalid input", detail |-> e.text, request_id |-> rid]
      [] h = "Exception" ->
             [error |-> "Internal server error",
              detail |-> "An unexpected error occurred", request_id |-> rid]

\* the message each handler logs: f"[{request_id}] <what>: {exc}"
HandlerLog(h, e, rid) ==
    [level |-> IF h \in {"oracledb.Error", "Exception"} THEN "exception" ELSE "warning",
     request_id |-> rid,
     what |-> CASE h = "oracledb.Error" -> "Oracle database error"
                [] h = "HTTPException" -> "HTTP"
                [] h = "ValueError"    -> "Validation error"
                [] h = "Exception"     -> "Unhandled exception",
     text |-> e.text]

\* the exception of a route reaches the registered handlers
Handle ==
    /\ pc = "raised"
    /\ via = "route"
    /\ HandlerFor(exc) # "none"
    /\ handler' = HandlerFor(exc)
    /\ logged' = Append(logged, HandlerLog(HandlerFor(exc), excValue, requestId))
    /\ status' = ResponseStatus(HandlerFor(exc), excValue)
    /\ body' = Some(HandlerContent(HandlerFor(exc), excValue, requestId))
    /\ pc' = "responded"
    /\ UNCHANGED <<op, args, sql, params, lifecycleVars, exc, excSite, resultVars,
                   cancelled, via, delivered, serialVars, concVars, excValue,
                   requestId, poolVars>>

\* the same service is called again with the same arguments: a new unit of
\* work, with the first envelope and connection kept for comparison
CallAgain ==
    /\ pc = "returned"
    /\ op \in Services
    /\ first = None
    /\ first' = Some([envelope |-> envelope[1], conn |-> connId])
    /\ sql' = SqlOf(op, args)
    /\ params' = ParamsOf(op, args)
    /\ conn' = "None"
    /\ connOpen' = FALSE
    /\ connectCount' = 0
    /\ setupCount' = 0
    /\ closeCount' = 0
    /\ bodyEntered' = FALSE
    /\ executed' = <<>>
    /\ rows' = <<>>
    /\ records' = <<>>
    /\ envelope' = None
    /\ cancelled' = FALSE
    /\ status' = 0
    /\ delivered' = 0
    /\ connId' = 0
    /\ pc' = "cm_connect"
    /\ UNCHANGED <<op, args, exc, excSite, db, via, handler, connSerial, viewVars>>

Next ==
    \/ Call_get_open_order_lines
    \/ Call_get_hold_history
    \/ Call_get_dc_onhand
    \/ Call_get_invoice_lines
    \/ Call_get_network_inventory
    \/ Call_get_open_trip_exceptions
    \/ Call_get_descartes_info
    \/ Call_get_route_plans
    \/ Call_get_dc_locations
    \/ Call_db_health_check
    \/ Connect
    \/ SessionSetup
    \/ Yield
    \/ Execute
    \/ FetchAll
    \/ MapRow
    \/ ExitWith
    \/ HealthVersion
    \/ HealthSchema
    \/ Interrupt
    \/ Cancel
    \/ CmExcept
    \/ CmFinally
    \/ Return
    \/ Handle
    \/ CallAgain

Spec == Init /\ [][Next]_vars

----------------------------------------------------------------------------
(* The exception handlers on their own: one exception instance, one request id *)

InitHandler ==
    /\ pc = "handler_input"
    /\ exc \in {"oracledb.Error", "ValidationError", "HTTPException", "Exception"}
    /\ excValue \in ExcValues(exc)
    /\ requestId \in RequestIds
    /\ via = "route"
    /\ body = None
    /\ logged = <<>>
    /\ ConcInit
    /\ PoolInit
    /\ op = "none"
    /\ args = <<>>
    /\ sql = <<>>
    /\ params = EmptyParams
    /\ conn = "None"
    /\ connOpen = FALSE
    /\ connectCount = 0
    /\ setupCount = 0
    /\ closeCount = 0
    /\ bodyEntered = FALSE
    /\ executed = <<>>
    /\ excSite = "none"
    /\ db = EmptyDb
    /\ rows = <<>>
    /\ records = <<>>
    /\ envelope = None
    /\ cancelled = FALSE
    /\ status = 0
    /\ handler = "none"
    /\ delivered = 0
    /\ first = None
    /\ connSerial = 0
    /\ connId = 0

\* the handler registered for the exception's class logs and answers
ApplyHandler ==
    /\ pc = "handler_input"
    /\ handler' = HandlerFor(exc)
    /\ logged' = Append(logged, HandlerLog(HandlerFor(exc), excValue, requestId))
    /\ status' = ResponseStatus(HandlerFor(exc), excValue)
    /\ body' = Some(HandlerContent(HandlerFor(exc), excValue, requestId))
    /\ pc' = "handler_done"
    /\ UNCHANGED <<op, args, sql, params, lifecycleVars, exc, excSite, resultVars,
                   cancelled, via, delivered, serialVars, concVars, excValue,
                   requestId, poolVars>>

NextHandler == ApplyHandler

SpecHandler == InitHandler /\ [][NextHandler]_vars

----------------------------------------------------------------------------
(* The row mapping on its own: one row, any of its columns NULL or missing *)

\* rows of each select list with every column nullable
NullableRows(o) ==
    CASE o = "get_open_order_lines" ->
             {[order_number |-> a, ordered_item |-> Some(<<"a">>), line_id |-> Some(1),
               dc |-> Some(84), trip_id |-> b] :
                 a \in {None, Some(100001)}, b \in {None, Some(900)}}
      [] o = "get_hold_history" ->
             {[hold_name |-> a, applied_date |-> b] :
                 a \in {None, Some("CREDIT")}, b \in {None, Some(2)}}
      [] o = "get_dc_onhand" ->
             {[INVENTORY_ITEM_ID |-> a, QUANTITY |-> b, ATTRIBUTE7 |-> Some("BULK")] :
                 a \in {None, Some(1)}, b \in {None, Some(3)}}
      [] o = "get_invoice_lines" ->
             {[TRX_NUMBER |-> a, CUSTOMER_TRX_LINE_ID |-> b, LINE_TYPE |-> Some("LINE")] :
                 a \in {None, Some(1)}, b \in {None, Some(1)}}
      [] o = "get_network_inventory" ->
             {[DC |-> a, ORGANIZATION_CODE |-> b, LOCAL_QTY |-> Some(3)] :
                 a \in {None, Some("Local")}, b \in {None, Some("084")}}
      [] o = "get_open_trip_exceptions" ->
             {[NOOFOPENLINES |-> a, ROUTE_ID |-> b, TRIP_ID |-> c] :
                 a \in {None, Some(0)}, b \in {None, Some(7)}, c \in {None, Some(900)}}
      [] o = "get_descartes_info" ->
             {[PAYLOAD_ID |-> a, EARLIESTDATE |-> b, ORDER_NUMBER |-> Some(100001)] :
                 a \in {None, Some(1)}, b \in {None, Some(5)}}
      [] o = "get_route_plans" ->
             {[ROUTE_ID |-> a, ROUTE_START_DATE |-> b, STOP_NUMBER |-> Some(1)] :
                 a \in {None, Some(7)}, b \in {None, Some(1)}}
      [] o = "get_dc_locations" ->
             {[ORGANIZATION_CODE |-> a, LOCATION_CODE |-> b, ORGANIZATION_ID |-> c] :
                 a \in {None, Some(84)}, b \in {None, Some("L1")}, c \in {None, Some(84)}}

\* the same rows with any set of columns left out of the select list
MapInputs(o) ==
    {[k \in S |-> r[k]] : r \in NullableRows(o), S \in SUBSET DOMAIN (CHOOSE x \in NullableRows(o) : TRUE)}

InitMap ==
    /\ pc = "map_input"
    /\ op \in Services
    /\ rows \in {<<r>> : r \in MapInputs(op)}
    /\ args = <<>>
    /\ sql = <<>>
    /\ params = EmptyParams
    /\ conn = "None"
    /\ connOpen = FALSE
    /\ connectCount = 0
    /\ setupCount = 0
    /\ closeCount = 0
    /\ bodyEntered = FALSE
    /\ executed = <<>>
    /\ exc = "none"
    /\ excSite = "none"
    /\ db = EmptyDb
    /\ records = <<>>
    /\ envelope = None
    /\ cancelled = FALSE
    /\ via = "none"
    /\ status = 0
    /\ handler = "none"
    /\ delivered = 0
    /\ first = None
    /\ connSerial = 0
    /\ connId = 0
    /\ ConcInit
    /\ RespInit
    /\ PoolInit

\* the body of the mapping loop applied to the row
MapOne ==
    /\ pc = "map_input"
    /\ IF MapRowOk(op, rows[1])
       THEN /\ records' = <<MapRowToModel(op, rows[1])>>
            /\ UNCHANGED <<exc, excSite>>
       ELSE /\ exc' = "ValidationError"
            /\ excSite' = "map"
            /\ UNCHANGED records
    /\ pc' = "map_done"
    /\ UNCHANGED <<op, args, sql, params, lifecycleVars, db, rows, envelope,
                   cancelled, outerVars>>

NextMap == MapOne

SpecMap == InitMap /\ [][NextMap]_vars

----------------------------------------------------------------------------
(* Properties *)

Terminal == {"returned", "raised"}

DomainExecs == {i \in 1..Len(executed) : executed[i].stmt = "domain"}
SetupExecs  == {i \in 1..Len(executed) : executed[i].stmt = "setup"}

\* C1: whenever oracledb.connect returned a connection, conn.close() has run
\* exactly once by the time the unit of work is over (normal end of the
\* with-body, oracledb.Error, any other exception, an interrupt of a
\* cancelled request), never more than once, and never when connect failed.
C1_CloseExactlyOnce ==
    /\ closeCount <= connectCount
    /\ connectCount <= 1
    /\ pc \in Terminal \cup {"after_with"} =>
           /\ closeCount = connectCount
           /\ ~connOpen

\* a cancelled request whose row mapping failed has closed its connection
C1_Witness ==
    /\ pc = "raised"
    /\ exc = "ValidationError"
    /\ cancelled
    /\ connectCount = 1
    /\ closeCount = 1

\* C2: every domain statement (a service's query, the two /dbhealth queries)
\* is executed on a connection on which SESSION_SETUP_SQL had completed, and
\* SESSION_SETUP_SQL is executed at most once per connection.
C2_SetupBeforeDomainQuery ==
    /\ \A i \in DomainExecs : executed[i].setupDone /\ executed[i].open
    /\ Cardinality(SetupExecs) <= connectCount
    /\ setupCount <= Cardinality(SetupExecs)

\* /dbhealth ran both of its queries after one setup
C2_Witness ==
    /\ op = "db_health_check"
    /\ pc = "returned"
    /\ Cardinality(DomainExecs) = 2
    /\ Cardinality(SetupExecs) = 1

\* C3: when connect or the session setup fails the with-body never runs and
\* no domain statement is executed; once the error has reached the caller a
\* connection opened before the setup failure has been closed.
C3_NoSessionOnFailure ==
    excSite \in {"connect", "setup"} =>
        /\ ~bodyEntered
        /\ DomainExecs = {}
        /\ pc = "raised" => /\ ~connOpen
                            /\ closeCount = connectCount

\* the setup statement failed on an open connection and the caller has the error
C3_Witness ==
    /\ pc = "raised"
    /\ excSite = "setup"
    /\ connectCount = 1
    /\ closeCount = 1
    /\ ~bodyEntered

IsOpenLines == op = "get_open_order_lines"
IsHoldHistory == op = "get_hold_history"

\* C4: a call of get_open_order_lines without its required filter dc fails
\* with an invalid-filter error (the route's 422 is one) and never enters
\* get_oracle_connection: no connect is attempted and nothing is executed.
C4_MissingFilterNeverConnects ==
    (IsOpenLines /\ args.dc = None) =>
        /\ \/ pc = "raised" /\ exc = "InvalidFilterError"
           \/ pc = "responded" /\ status = 422
        /\ connectCount = 0
        /\ executed = <<>>

\* C5: whenever a query service calls cursor.execute, the named placeholders
\* of the SQL text are exactly the keys of the bind dict passed with it.
C5_PlaceholdersEqualBindKeys ==
    (op \in Services /\ DomainExecs # {}) =>
        \A i \in DomainExecs : Placeholders(executed[i].sql) = BindKeys(params)

\* predicates the optional filters added to branch b of the open-order-lines
\* statement: those that are not in the statement built without optional filters
AddedPreds(q, b) ==
    BranchPreds(q, b) \ BranchPreds(_build_open_order_lines_query(None, None, None), b)

\* C6: in the open-order-lines statement the optional filters add the same
\* predicates to both branches of the UNION ALL.
C6_SymmetricFiltering ==
    IsOpenLines => AddedPreds(sql, 1) = AddedPreds(sql, 2)

\* C7: every record get_open_order_lines returns has the supplied
\* order_number, and its ordered_item contains the supplied fragment
\* case-insensitively.
C7_ReturnedRecordsMatchFilters ==
    (IsOpenLines /\ pc = "returned") =>
        \A i \in 1..Len(envelope[1].data) :
            LET rec == envelope[1].data[i] IN
            /\ args.order_number # None => rec.order_number = args.order_number[1]
            /\ args.ordered_item # None =>
                   Contains(Upper(rec.ordered_item), Upper(args.ordered_item[1]))

\* C8: an optional filter that is None adds neither its fragment nor its bind
\* key; with dc and days_back supplied and both optional filters None the bind
\* keys are exactly {dc, days_back} and neither fragment is in the SQL.
C8_AbsentFiltersOmitted ==
    (IsOpenLines /\ sql # <<>>) =>
        LET frags == {sql[i] : i \in 1..Len(sql)} IN
        /\ args.order_number = None =>
               OrderNumberFragment \notin frags /\ "order_number" \notin BindKeys(params)
        /\ args.ordered_item = None =>
               OrderedItemFragment \notin frags /\ "ordered_item" \notin BindKeys(params)
        /\ (args.dc # None /\ args.order_number = None /\ args.ordered_item = None) =>
               /\ BindKeys(params) = {"dc", "days_back"}
               /\ OrderNumberFragment \notin frags
               /\ OrderedItemFragment \notin frags

HeaderLevelPreds == {"header_id = :header_id", "line_id IS NULL"}
LineLevelPreds == {"header_id = :header_id", "line_id = :line_id"}

\* C9: the statement get_hold_history executes is, without line_id, the
\* header-level branch alone (no UNION) with bind keys {header_id}; with a
\* line_id (0 included) the UNION of the header-level and the line-level
\* branch with bind keys {header_id, line_id}.
C9_HoldHistoryQuerySpec ==
    (IsHoldHistory /\ DomainExecs # {}) =>
        \A i \in DomainExecs :
            LET q == executed[i].sql IN
            IF args.line_id = None
            THEN /\ SetOps(q) = {}
                 /\ BranchPreds(q, 1) = HeaderLevelPreds
                 /\ BindKeys(params) = {"header_id"}
            ELSE /\ Cardinality(SetOps(q)) = 1
                 /\ \A c \in SetOps(q) : q[c].text = "UNION"
                 /\ BranchPreds(q, 1) = HeaderLevelPreds
                 /\ BranchPreds(q, 2) = LineLevelPreds
                 /\ BindKeys(params) = {"header_id", "line_id"}
                 /\ params["line_id"] = args.line_id[1]

\* get_hold_history was executed with line_id = 0
C9_Witness ==
    /\ IsHoldHistory
    /\ args.line_id = Some(0)
    /\ DomainExecs # {}
    /\ pc = "returned"

\* number of occurrences of r in the sequence s
Count(r, s) == Cardinality({i \in 1..Len(s) : s[i] = r})

\* what get_hold_history returns for header_id without line_id over the
\* tables the current call has read
HeaderOnlyData ==
    LET q == HoldHistorySql(args.header_id, None)
        p == HoldHistoryParams(args.header_id, None)
        m(row) == MapRowToModel("get_hold_history", row)
    IN  MapSeq(Evaluate(q, p, db), m)

\* C10: every record get_hold_history returns without line_id is returned
\* with line_id too, as many times, and total with line_id is not smaller.
C10_LineIdOnlyAdds ==
    (IsHoldHistory /\ pc = "returned" /\ args.line_id # None) =>
        /\ \A i \in 1..Len(HeaderOnlyData) :
               Count(HeaderOnlyData[i], envelope[1].data) >= Count(HeaderOnlyData[i], HeaderOnlyData)
        /\ envelope[1].total >= Len(HeaderOnlyData)

\* the column a service feeds field f from ("" when it passes none for it)
FedFrom(o, f) ==
    IF o \in SplatServices THEN f.alias
    ELSE IF f.name \in GetKeys(o) THEN f.name ELSE ""

\* the column of field f is missing from the row, or NULL in it
ColumnAbsent(o, f, d) == FedFrom(o, f) \notin DOMAIN d \/ d[FedFrom(o, f)] = None

\* C11: for every record shape, a row whose required columns are all present
\* and non-null maps to one record without error, and each optional field
\* whose column is NULL or missing is None in it; a row in which the column
\* of a required field is NULL or missing raises the mapping error and
\* yields no record.
C11_MappingContract ==
    pc = "map_done" =>
        LET d == RowDict(rows[1])
            fields == ShapeOf(op).fields
        IN  IF \E f \in fields : f.required /\ ColumnAbsent(op, f, d)
            THEN /\ exc = "ValidationError"
                 /\ records = <<>>
            ELSE /\ exc = "none"
                 /\ Len(records) = 1
                 /\ \A f \in fields : ColumnAbsent(op, f, d) => records[1][f.name] = None

\* a DC location row without its location_code column was refused
C11_Witness ==
    /\ pc = "map_done"
    /\ op = "get_dc_locations"
    /\ "LOCATION_CODE" \notin DOMAIN rows[1]
    /\ "ORGANIZATION_CODE" \in DOMAIN rows[1]
    /\ exc = "ValidationError"
    /\ records = <<>>

\* C12: a pydantic validation failure raised while a query service maps a
\* row is answered to the HTTP caller with status 500, never by the
\* ValueError handler with 400.
C12_MappingErrorIsServerFailure ==
    (via = "route" /\ pc = "responded" /\ exc = "ValidationError") =>
        /\ status = 500
        /\ handler # "ValueError"

\* the phase of the unit of work: 1 filters accepted, 2 session acquired,
\* 3 query executing, 4 all rows mapped, 5 envelope ready; -1 once it fails
Phase ==
    CASE pc = "idle"                                     -> 0
      [] pc \in {"cm_connect", "cm_setup", "cm_yield"}   -> 1
      [] pc = "body_execute"                             -> 2
      [] pc \in {"body_fetch", "body_map"}               -> 3
      [] pc \in {"cm_finally", "after_with"} /\ exc = "none" -> 4
      [] pc = "returned"                                 -> 5
      [] OTHER                                           -> -1

C14_ClosedBeforeErrorObserved ==
    (exc # "none" /\ (pc \in {"raised", "responded"} \/ handler # "none")) =>
        /\ ~connOpen
        /\ connectCount = 1 => closeCount = 1

\* the oracle handler answered a fetch failure; the connection was closed
C14_Witness ==
    /\ pc = "responded"
    /\ handler = "oracledb.Error"
    /\ excSite = "fetch"
    /\ connectCount = 1
    /\ closeCount = 1
    /\ ~connOpen

\* C18: the envelope of a successful invocation has total = len(data) = the
\* number of rows the engine delivered, echoes the arguments the caller
\* supplied, and is the only envelope of the invocation (none exists before
\* the return).
C18_EnvelopeCounts ==
    /\ (op \in Services /\ pc # "returned") => envelope = None
    /\ (op \in Services /\ pc = "returned") =>
           /\ envelope # None
           /\ envelope[1].total = Len(envelope[1].data)
           /\ envelope[1].total = delivered
           /\ op = "get_open_order_lines" => envelope[1].days_back = args.days_back
           /\ op = "get_hold_history" =>
                  envelope[1].header_id = args.header_id /\ envelope[1].line_id = args.line_id
           /\ op \in {"get_dc_onhand", "get_invoice_lines", "get_route_plans",
                      "get_network_inventory"} => envelope[1].dcid = args.dcid
           /\ op = "get_network_inventory" => envelope[1].itemid = args.itemid
           /\ op = "get_open_trip_exceptions" => envelope[1].org_id = args.org_id
           /\ op = "get_descartes_info" =>
                  /\ envelope[1].order_number = args.order_number
                  /\ envelope[1].line_id = args.line_id

\* network inventory returned two records for the dcid and itemid asked for
C18_Witness ==
    /\ op = "get_network_inventory"
    /\ pc = "returned"
    /\ delivered = 2
    /\ envelope[1].total = 2
    /\ envelope[1].dcid = 84
    /\ envelope[1].itemid = 7

ViolatesDeclared(o, a) ==
    CASE o = "get_open_order_lines" ->
             a.dc = None \/ a.dc[1] < 1 \/ a.days_back < 1 \/ a.days_back > 365
      [] o \in {"get_dc_onhand", "get_invoice_lines"} -> a.dcid < 1
      [] o = "get_network_inventory" -> a.dcid < 1 \/ a.itemid < 1
      [] OTHER -> FALSE

\* C20: a request whose filters violate a declared constraint is answered
\* with a 4xx status and nothing else; a connect, session-setup, execute or
\* fetch failure is answered with 500.
C20_StatusClasses ==
    (via = "route" /\ op # "none") =>
        IF ViolatesDeclared(op, args)
        THEN pc = "responded" /\ status >= 400 /\ status <= 499
        ELSE (status # 0 /\ exc = "oracledb.Error") => status = 500

\* a network-inventory request with itemid = 0 was answered 422
C20_Witness ==
    /\ via = "route"
    /\ op = "get_network_inventory"
    /\ args.itemid = 0
    /\ pc = "responded"
    /\ status = 422
    /\ connectCount = 0

\* a sequence as a multiset: s and t have the same elements as many times
SameMultiset(s, t) ==
    /\ Len(s) = Len(t)
    /\ \A i \in 1..Len(s) : Count(s[i], s) = Count(s[i], t)

\* an envelope without its data: total and the echoed arguments
Meta(e) == [k \in (DOMAIN e) \ {"data"} |-> e[k]]

\* the ORDER BY key of a record
RecordKey(text, r) ==
    CASE text = "ORDER BY APPLIED_DATE" -> <<r.applied_date>>
      [] text = "ORDER BY mp.organization_code" -> <<r.organization_code[1]>>
      [] text = "ORDER BY route_start_date, stop_number" ->
             <<r.route_start_date[1], r.stop_number[1]>>
      [] text = "Order By 1" -> <<r.payload_id[1]>>
      [] text = "ORDER BY trx_number, customer_trx_line_id, line_type" ->
             <<r.trx_number[1], r.customer_trx_line_id[1],
               IF r.line_type[1] = "LINE" THEN 1 ELSE 2>>

\* the second of two equal calls has returned
SecondReturned == first # None /\ pc = "returned"

\* the second call ran on a connection of its own
FreshConnection ==
    /\ connectCount = 1
    /\ closeCount = 1
    /\ connId # first[1].conn
    /\ \A i \in 1..Len(executed) : executed[i].conn = connId

\* C17 as stated: two calls of a query service with the same arguments over
\* unchanged data return the same records as multisets, in the same order
\* when the statement has an ORDER BY, the same total and the same echoed
\* arguments; the second call runs on a connection of its own.
C17_Idempotent ==
    SecondReturned =>
        /\ SameMultiset(first[1].envelope.data, envelope[1].data)
        /\ OrderText(sql) # "" => first[1].envelope.data = envelope[1].data
        /\ Meta(first[1].envelope) = Meta(envelope[1])
        /\ FreshConnection

\* C17 amended: as stated, but with an ORDER BY the two envelopes agree on
\* the order only up to records whose ORDER BY keys are equal: position by
\* position the keys are the same.
C17_IdempotentUpToTies ==
    SecondReturned =>
        /\ SameMultiset(first[1].envelope.data, envelope[1].data)
        /\ OrderText(sql) # "" =>
               \A i \in 1..Len(envelope[1].data) :
                   RecordKey(OrderText(sql), first[1].envelope.data[i])
                       = RecordKey(OrderText(sql), envelope[1].data[i])
        /\ Meta(first[1].envelope) = Meta(envelope[1])
        /\ FreshConnection

\* two calls of get_route_plans returned the same two records, sorted, the
\* second on the second connection
C17_Witness ==
    /\ SecondReturned
    /\ op = "get_route_plans"
    /\ Len(envelope[1].data) = 2
    /\ envelope[1].data[1].stop_number # envelope[1].data[2].stop_number
    /\ first[1].envelope.data = envelope[1].data
    /\ connId = 2

\* the request's database call is in flight
InFlight(r) == rPc[r] \in {"connect", "setup", "execute", "close"}

\* C15: whatever the interleaving of concurrent invocations, a connection
\* has executed statements for the invocation that opened it and for no
\* other, no two invocations hold the same connection, and the connection of
\* an invocation that is setting up or executing is open (no other
\* invocation's close has touched it).
C15_ConnectionPerInvocation ==
    /\ \A c \in 1..Len(conns) : conns[c].users \subseteq {conns[c].owner}
    /\ \A r \in Requests : rConn[r] # 0 => conns[rConn[r]].owner = r
    /\ \A r, s \in Requests : (r # s /\ rConn[r] # 0) => rConn[r] # rConn[s]
    /\ \A r \in Requests : rPc[r] \in {"setup", "execute", "close"} => conns[rConn[r]].open

\* two invocations in two workers have executed, each on its own
\* connection; one connection is closed, the other still in use
C15_Witness ==
    /\ Len(conns) = 2
    /\ conns[1].users = {conns[1].owner}
    /\ conns[2].users = {conns[2].owner}
    /\ conns[1].owner # conns[2].owner
    /\ ~conns[1].open
    /\ conns[2].open
    /\ rPc[conns[2].owner] = "close"

\* C16: while the database call of one request is in flight, a request for
\* GET /health that the same worker has accepted can be started.
C16_NoStall ==
    \A r, h \in Requests :
        (InFlight(r) /\ rKind[h] = "health" /\ rPc[h] = "queued"
            /\ rWorker[h] = rWorker[r]) =>
            ENABLED (/\ rPc[h] = "queued"
                     /\ loop[rWorker[h]] = 0
                     /\ loop' = [loop EXCEPT ![rWorker[h]] = h]
                     /\ rPc' = [rPc EXCEPT ![h] = "health"]
                     /\ UNCHANGED <<rKind, rWorker, rConn, conns, unitVars>>)

\* C21: a days_back outside [1, 365] is rejected before any SQL is built and
\* before any connection is attempted, through the route and through
\* DCOrderLineService.get_open_order_lines alike, and is never a bind value.
C21_DaysBackRejectedEarly ==
    (IsOpenLines /\ (args.days_back < 1 \/ args.days_back > 365)) =>
        /\ sql = <<>>
        /\ connectCount = 0
        /\ executed = <<>>
        /\ "days_back" \notin BindKeys(params)

\* the ids each service requires
RequiredIds(o) ==
    CASE o = "get_open_order_lines"     -> {"dc"}
      [] o = "get_hold_history"         -> {"header_id"}
      [] o = "get_network_inventory"    -> {"dcid", "itemid"}
      [] o = "get_open_trip_exceptions" -> {"org_id"}
      [] o = "get_descartes_info"       -> {"order_number", "line_id"}
      [] o = "get_dc_locations"         -> {}
      [] OTHER                          -> {"dcid"}

\* C22: through the routes, no query is executed with a required id bind
\* value (dc, dcid, org_id, itemid, header_id, order_number, line_id) less
\* than 1: a non-positive id is rejected before.
C22_NoNonPositiveIdExecuted ==
    (op \in Services /\ via = "route" /\ DomainExecs # {}) =>
        \A k \in RequiredIds(op) \cap BindKeys(params) : params[k] >= 1

\* the keys a record shape is populated by
DeclaredKeys(shape) ==
    {f.alias : f \in shape.fields}
        \cup (IF shape.populate_by_name THEN {f.name : f \in shape.fields} ELSE {})

\* the row without the columns its record shape does not declare
WithoutExtras(o, row) ==
    [k \in {c \in DOMAIN row : LowerName(c) \in DeclaredKeys(ShapeOf(o))} |-> row[k]]

FragsOf(q) == {q[i] : i \in 1..Len(q)}

\* C24: in get_open_order_lines an optional filter has its predicate
\* fragment in the SQL and its key in the bind dict if and only if it was
\* supplied (is not None), the values order_number = 0 and ordered_item = ""
\* included.
C24_AppliedIffSupplied ==
    (IsOpenLines /\ sql # <<>>) =>
        /\ args.order_number # None <=>
               (OrderNumberFragment \in FragsOf(sql) /\ "order_number" \in BindKeys(params))
        /\ args.ordered_item # None <=>
               (OrderedItemFragment \in FragsOf(sql) /\ "ordered_item" \in BindKeys(params))

\* C25: for every non-empty ordered_item filter value v the bind value is
\* '%' + upper(v) + '%' and the predicate compares it with
\* UPPER(ORDERED_ITEM); filter values that differ only in letter case give
\* the same statement and the same bind dict.
C25_CaseInsensitiveItemFilter ==
    (IsOpenLines /\ sql # <<>> /\ TruthyStr(args.ordered_item)) =>
        /\ params["ordered_item"] = <<"%">> \o Upper(args.ordered_item[1]) \o <<"%">>
        /\ Pred("UPPER(ORDERED_ITEM) LIKE :ordered_item", {"ordered_item"}) \in FragsOf(sql)
        /\ \A w \in Strings(MaxItemLen) :
               Upper(w) = Upper(args.ordered_item[1]) =>
                   /\ SqlOf(op, [args EXCEPT !.ordered_item = Some(w)]) = sql
                   /\ ParamsOf(op, [args EXCEPT !.ordered_item = Some(w)]) = params

\* the lower-case filter value "a" was sent to the engine as '%A%'
C25_Witness ==
    /\ IsOpenLines
    /\ pc = "returned"
    /\ DomainExecs # {}
    /\ args.ordered_item = Some(<<"a">>)
    /\ "ordered_item" \in BindKeys(params)
    /\ params["ordered_item"] = <<"%", "A", "%">>

\* a step that runs the statement of the service
ExecutesDomain == Len(executed') = Len(executed) + 1 /\ executed'[Len(executed')].stmt = "domain"

\* a step that maps one row
MapsRow == Len(records') = Len(records) + 1

\* a step that builds the response envelope
Assembles == envelope = None /\ envelope' # None

\* a step that closes the connection of an invocation that has not failed
Releases == closeCount' = closeCount + 1 /\ exc = "none"

\* the steps up to the last mapped row, in their order: the statement is
\* executed on the open connection before any row is mapped, and every row is
\* mapped on the open connection after the execute
ExecuteFetchMapInOrder ==
    /\ ExecutesDomain => connOpen /\ records = <<>> /\ envelope = None
    /\ MapsRow => DomainExecs # {} /\ connOpen /\ envelope = None

\* C26 as stated: in a successful invocation the steps are: execute, fetch,
\* map each row, assemble the envelope, release the connection; the envelope
\* is assembled while the connection is open and the release comes last.
C26_AssembleThenRelease ==
    [][op' \in Services =>
          /\ ExecuteFetchMapInOrder
          /\ Assembles => connOpen /\ closeCount = 0 /\ rows = <<>>
          /\ Releases => envelope # None]_vars

\* C26 amended: execute, fetch, map each row, release the connection,
\* assemble the envelope: the with block is left, and the connection closed,
\* once every row is mapped, and the envelope is built from the mapped
\* records after the close.
C26_ReleaseThenAssemble ==
    /\ [][op' \in Services =>
             /\ ExecuteFetchMapInOrder
             /\ Releases => rows = <<>> /\ Len(records) = delivered /\ envelope = None
             /\ Assembles => /\ ~connOpen
                             /\ closeCount = 1
                             /\ envelope'[1].data = records
                             /\ Len(records) = delivered]_vars
    /\ []((op \in Services /\ pc = "returned") =>
             closeCount = 1 /\ ~connOpen /\ DomainExecs # {})

\* an invoice statement delivered two rows; both are in the envelope and
\* the connection is closed
C26_Witness ==
    /\ op = "get_invoice_lines"
    /\ pc = "returned"
    /\ delivered = 2
    /\ Len(envelope[1].data) = 2
    /\ closeCount = 1
    /\ ~connOpen

\* the model refuses a row of the result set the statement selected
SomeRowRefused == \E i \in 1..Len(db.result) : ~MapRowOk(op, db.result[i])

\* C27: when the mapping of any row of a result set fails, the whole
\* invocation fails: no envelope is returned, the records mapped from earlier
\* rows are not returned, and nothing is retried: an invocation connects at
\* most once and executes its statement at most once.
C27_MappingFailureIsFatal ==
    op \in TemplateServices =>
        /\ connectCount <= 1
        /\ Cardinality(DomainExecs) <= 1
        /\ SomeRowRefused =>
               /\ envelope = None
               /\ pc \notin {"after_with", "returned"}
               /\ pc = "responded" => status # 200
        /\ exc = "ValidationError" =>
               /\ SomeRowRefused
               /\ pc \in {"cm_finally", "raised", "responded"}

\* the first route-plan row was mapped, the second has no route_id: the
\* invocation raised after one connect and one execute, with no envelope
C27_Witness ==
    /\ op = "get_route_plans"
    /\ pc = "raised"
    /\ exc = "ValidationError"
    /\ Len(records) = 1
    /\ envelope = None
    /\ connectCount = 1
    /\ Cardinality(DomainExecs) = 1
    /\ closeCount = 1

\* C28: the response of oracle_exception_handler does not depend on the
\* engine's error text: for the same request id every oracledb.Error gets
\* the same status and the same body; the text is logged and not echoed.
C28_OracleErrorTextNotEchoed ==
    (pc = "handler_done" /\ exc = "oracledb.Error") =>
        /\ \A e \in ExcValues(exc) :
               /\ ResponseStatus(HandlerFor(exc), e) = status
               /\ Some(HandlerContent(HandlerFor(exc), e, requestId)) = body
        /\ status = 500
        /\ \A k \in DOMAIN body[1] : body[1][k] # excValue.text
        /\ \E i \in 1..Len(logged) :
               logged[i].text = excValue.text /\ logged[i].request_id = requestId

\* ORA-00942 under request id 1a2b3c4d was logged and answered with the
\* fixed body
C28_Witness ==
    /\ pc = "handler_done"
    /\ exc = "oracledb.Error"
    /\ handler = "oracledb.Error"
    /\ excValue.text = "ORA-00942: table or view does not exist"
    /\ requestId = "1a2b3c4d"
    /\ status = 500
    /\ body = Some([error |-> "Database operation failed",
                    detail |-> "An error occurred while accessing the database",
                    request_id |-> "1a2b3c4d"])
    /\ Len(logged) = 1

\* the arguments a service can be called with
ArgsOf(o) ==
    CASE o = "get_open_order_lines" ->
             {[order_number |-> a, ordered_item |-> b, dc |-> c, days_back |-> d] :
                 a \in OrderNumbers, b \in OrderedItems, c \in Dcs, d \in DaysBacks}
      [] o = "get_hold_history" ->
             {[header_id |-> a, line_id |-> b] : a \in HeaderIds, b \in LineIds}
      [] o = "get_network_inventory" ->
             {[dcid |-> a, itemid |-> b] : a \in Dcids, b \in Itemids}
      [] o = "get_open_trip_exceptions" -> {[org_id |-> a] : a \in OrgIds}
      [] o = "get_descartes_info" -> {[order_number |-> 100001, line_id |-> 5]}
      [] o = "get_dc_locations" -> {<<>>}
      [] OTHER -> {[dcid |-> a] : a \in Dcids}

\* the optional filters that are supplied (not None) in the arguments
PresentIn(o, a) ==
    CASE o = "get_open_order_lines" ->
             {k \in {"order_number", "ordered_item", "dc"} : a[k] # None}
      [] o = "get_hold_history" -> {k \in {"line_id"} : a[k] # None}
      [] OTHER -> {}

\* C29: the SQL text a query service sends depends only on which optional
\* filters are present, never on their values: arguments with the same
\* presence pattern give the same text; the values are bind values only.
C29_SqlDependsOnPresenceOnly ==
    (op \in Services /\ sql # <<>>) =>
        \A a \in ArgsOf(op) :
            PresentIn(op, a) = PresentIn(op, args) => SqlOf(op, a) = sql

\* C30: under any interleaving of concurrent requests that call get_db_pool
\* while db_pool is None, asyncpg.create_pool is called at most once in the
\* process, every caller receives the same pool, and the pool that lifespan
\* closes at shutdown is the only pool ever created.
C30_OnePoolPerProcess ==
    /\ createCalls <= 1
    /\ Len(pools) <= 1
    /\ \A r, s \in Callers : (gPool[r] # 0 /\ gPool[s] # 0) => gPool[r] = gPool[s]
    /\ lifePc = "stopped" => \A i \in 1..Len(pools) : pools[i].closed

====
